---- MODULE Spec2Model ----
(***************************************************************************)
(* A model of the composition layer of the OpenPGP library: key packets    *)
(* (fingerprint, key id), the transferable-key composer and its            *)
(* serializer, signature verification of a composed key, the message       *)
(* composer, message decryption, the ASCII armor reader, the               *)
(* construction of a key's details and their unsigned form, the packet     *)
(* parsers (one packet, a stream of packets, RSA secret keys) and the AES  *)
(* key wrap.                                                               *)
(*                                                                         *)
(* Every component has its own variables, its own initial predicate and    *)
(* its own specification (SpecKeyId, SpecKey, ...).  Under the              *)
(* specification of one component the variables of the others stay at      *)
(* their idle values.                                                      *)
(***************************************************************************)
EXTENDS Integers, Sequences, FiniteSets, TLC

VARIABLES
    \* ---- packet/types/key.rs: one key packet and the results of its accessors
    keyPacket,        \* the PublicKey / PrivateKey struct, or NoKey before construction
    fingerprintRes,   \* what fingerprint() returned, or NotCalled
    keyIdRes,         \* what key_id() returned, or NotCalled
    \* ---- composed/key_parser.rs, composed/signed_key/shared.rs: the key composer
    flavour,          \* which instance of key_parser! runs: "Public" or "Secret"
    packets,          \* the packet stream handed to from_packets
    parsed,           \* what from_packets returned, or NotCalled
    written,          \* the packets to_writer emitted for one composed key, or NotCalled
    reparsed,         \* what from_bytes returned for the written packets, or NotCalled
    \* ---- composed/signed_key/shared.rs: verification of a composed key
    details,          \* the SignedKeyDetails under verification, or NoDetails
    verifyRes,        \* what verify(key) returned and for which key, or NotCalled
    \* ---- composed/message_parser.rs: the loop of Message::from_packets
    consumed,         \* the packets the loop has taken from the iterator so far
    stack,            \* stack: Vec<Message>
    cur,              \* cur: Option<usize>, the currently open message
    is_edata,         \* is_edata: bool
    msgRes,           \* what from_packets returned, or NotCalled while the loop runs
    \* ---- composed/message.rs: Message::decrypt
    decKey,           \* the composed private key handed to decrypt, or NoKey
    decMessage,       \* the message decrypt is called on, or NoMessage
    decryptRes,       \* how the call of decrypt ended, or NotCalled
    \* ---- armor.rs, composed/shared.rs: reading ASCII armor
    armorInput,       \* the armored text handed to the reader, or NoInput
    armorRes,         \* which function was called on it and how the call ended, or NotCalled
    \* ---- composed/signed_key/shared.rs: SignedKeyDetails::new
    newDetails,       \* the arguments of a call of new and what it returned, or NotCalled
    \* ---- armor.rs: Dearmor::read, call by call, over a source that gives chunks
    reader,           \* the Dearmor with its source and the armor it reads, or NoInput
    readCall,         \* the caller's buffer and the locals of the running call of read
    readLog,          \* the calls of read that have returned, in their order
    \* ---- packet/single.rs: the parsers of one packet
    singleCall,       \* the function of single.rs that was called, its input and its result, or NotCalled
    \* ---- packet/many.rs: packet::parser over a reader
    pktSource,        \* the packet stream behind the reader handed to packet::parser, or NoInput
    pktParser,        \* the locals of the running call of packet::parser and its result, or NotCalled
    \* ---- packet/tags/privkey.rs: the parser of an RSA secret key
    privCall,         \* the input of the parser of an RSA secret key and how the call ended, or NotCalled
    \* ---- crypto/ecc.rs: AES key wrap
    kwWrap,           \* the key and data of the call of aes_kw_wrap and what it returned, or NotCalled
    kwUnwrap,         \* the key and data of the call of aes_kw_unwrap and what it returned, or NotCalled
    \* ---- composed/signed_key/shared.rs: SignedKeyDetails::as_unsigned
    unsCall           \* the details as_unsigned was called on and what it returned, or NotCalled

keyIdVars == <<keyPacket, fingerprintRes, keyIdRes>>
keyVars == <<flavour, packets, parsed, written, reparsed>>

verifyVars == <<details, verifyRes>>

msgVars == <<consumed, stack, cur, is_edata, msgRes>>

decVars == <<decKey, decMessage, decryptRes>>

armorVars == <<armorInput, armorRes>>

newVars == <<newDetails>>

readVars == <<reader, readCall, readLog>>

singleVars == <<singleCall>>

manyVars == <<pktSource, pktParser>>

privVars == <<privCall>>

kwVars == <<kwWrap, kwUnwrap>>

unsVars == <<unsCall>>

vars ==
    <<keyIdVars, keyVars, verifyVars, msgVars, decVars, armorVars, newVars,
      readVars, singleVars, manyVars, privVars, kwVars, unsVars>>

\* what the actions of one component leave alone
notKeyId ==
    <<keyVars, verifyVars, msgVars, decVars, armorVars, newVars, readVars,
      singleVars, manyVars, privVars, kwVars, unsVars>>
notKey ==
    <<keyIdVars, verifyVars, msgVars, decVars, armorVars, newVars, readVars,
      singleVars, manyVars, privVars, kwVars, unsVars>>
notVerify ==
    <<keyIdVars, keyVars, msgVars, decVars, armorVars, newVars, readVars,
      singleVars, manyVars, privVars, kwVars, unsVars>>
notMsg ==
    <<keyIdVars, keyVars, verifyVars, decVars, armorVars, newVars, readVars,
      singleVars, manyVars, privVars, kwVars, unsVars>>
notDec ==
    <<keyIdVars, keyVars, verifyVars, msgVars, armorVars, newVars, readVars,
      singleVars, manyVars, privVars, kwVars, unsVars>>
notArmor ==
    <<keyIdVars, keyVars, verifyVars, msgVars, decVars, newVars, readVars,
      singleVars, manyVars, privVars, kwVars, unsVars>>
notNew ==
    <<keyIdVars, keyVars, verifyVars, msgVars, decVars, armorVars, readVars,
      singleVars, manyVars, privVars, kwVars, unsVars>>
notRead ==
    <<keyIdVars, keyVars, verifyVars, msgVars, decVars, armorVars, newVars,
      singleVars, manyVars, privVars, kwVars, unsVars>>
notSingle ==
    <<keyIdVars, keyVars, verifyVars, msgVars, decVars, armorVars, newVars,
      readVars, manyVars, privVars, kwVars, unsVars>>
notMany ==
    <<keyIdVars, keyVars, verifyVars, msgVars, decVars, armorVars, newVars,
      readVars, singleVars, privVars, kwVars, unsVars>>
notPriv ==
    <<keyIdVars, keyVars, verifyVars, msgVars, decVars, armorVars, newVars,
      readVars, singleVars, manyVars, kwVars, unsVars>>
notKw ==
    <<keyIdVars, keyVars, verifyVars, msgVars, decVars, armorVars, newVars,
      readVars, singleVars, manyVars, privVars, unsVars>>
notUns ==
    <<keyIdVars, keyVars, verifyVars, msgVars, decVars, armorVars, newVars,
      readVars, singleVars, manyVars, privVars, kwVars>>

\* ---------------------------------------------------------------- generic helpers

\* sentinels are records, so that they compare with every value a variable takes
NoKey == [none |-> TRUE]
NotCalled == [called |-> FALSE]
Returned(v) == [called |-> TRUE, ret |-> v]

\* F of the value of v; v is evaluated once, however often F uses it
With(v, F(_)) == CHOOSE r \in {F(x) : x \in {v}} : TRUE

None == [some |-> FALSE]
Some(v) == [some |-> TRUE, val |-> v]
Panic(msg) == [panic |-> msg]

\* Result<T>
Ok(v) == [ok |-> TRUE, val |-> v]
Err(e) == [ok |-> FALSE, err |-> e]

RECURSIVE SumSeq(_)
SumSeq(s) == IF s = <<>> THEN 0 ELSE Head(s) + SumSeq(Tail(s))

\* s[from..] of a Rust slice, with from counted from 0; defined for from <= Len(s)
SliceFrom(s, from) == SubSeq(s, from + 1, Len(s))

\* ---------------------------------------------------------------- idle components

NoDetails == [none |-> TRUE]

KeyIdIdle == keyPacket = NoKey /\ fingerprintRes = NotCalled /\ keyIdRes = NotCalled

KeyIdle ==
    /\ flavour = "Public" /\ packets = <<>>
    /\ parsed = NotCalled /\ written = NotCalled /\ reparsed = NotCalled

VerifyIdle == details = NoDetails /\ verifyRes = NotCalled

\* from_packets before its first packet
MsgIdle ==
    /\ consumed = <<>> /\ stack = <<>> /\ cur = None /\ is_edata = FALSE
    /\ msgRes = NotCalled

NoMessage == [none |-> TRUE]

DecIdle == decKey = NoKey /\ decMessage = NoMessage /\ decryptRes = NotCalled

NoInput == [none |-> TRUE]

ArmorIdle == armorInput = NoInput /\ armorRes = NotCalled

NewIdle == newDetails = NotCalled

ReadIdle == reader = NoInput /\ readCall = NotCalled /\ readLog = <<>>

SingleIdle == singleCall = NotCalled

ManyIdle == pktSource = NoInput /\ pktParser = NotCalled

PrivIdle == privCall = NotCalled

KwIdle == kwWrap = NotCalled /\ kwUnwrap = NotCalled

UnsIdle == unsCall = NotCalled

\* nothing constructed, nothing called
Idle ==
    KeyIdIdle /\ KeyIdle /\ VerifyIdle /\ MsgIdle /\ DecIdle /\ ArmorIdle /\
      NewIdle /\ ReadIdle /\ SingleIdle /\ ManyIdle /\ PrivIdle /\ KwIdle /\
      UnsIdle

\* ---------------------------------------------------------------- bounds

\* longest RSA modulus, in bytes, that the key packets of the model carry
MaxModLen == 24

\* most packets that follow the first packet of a key stream
MaxRest == 4

\* ================================================================ key packets
\* src/src/packet/types/key.rs

KeyVersions == {"V2", "V3", "V4"}

\* PublicKeyAlgorithm as u8 (packet.push(*self.algorithm() as u8))
AlgorithmId(alg) == CASE alg = "RSA" -> 1 [] alg = "DSA" -> 17

\* A BigNum is modelled by its big-endian bytes (BigNum::to_vec): no leading zero.
BigNumOf(len, seed) == [i \in 1..len |-> ((seed + 37 * i) % 255) + 1]

ModLens == {8, 16, MaxModLen}

RSAParams == { [kind |-> "RSA", n |-> BigNumOf(l, s), e |-> <<1, 0, 1>>] :
                 l \in ModLens, s \in {3, 100} }

DSAParams == { [kind |-> "DSA", p |-> BigNumOf(8, 5), q |-> BigNumOf(3, 9),
                g |-> <<2>>, y |-> BigNumOf(8, s)] : s \in {11, 12} }

RECURSIVE BitLen(_)
BitLen(b) == IF b = 0 THEN 0 ELSE 1 + BitLen(b \div 2)

BE16(v) == <<(v \div 256) % 256, v % 256>>
BE32(v) == <<(v \div 16777216) % 256, (v \div 65536) % 256, (v \div 256) % 256, v % 256>>

\* util::bignum_to_mpi: two octets of bit length, then the bytes
bignum_to_mpi(n) == BE16((Len(n) - 1) * 8 + BitLen(n[1])) \o n

\* the key material as written into the fingerprint input (both version arms)
KeyMaterial(pp) ==
    IF pp.kind = "RSA"
    THEN bignum_to_mpi(pp.n) \o bignum_to_mpi(pp.e)
    ELSE bignum_to_mpi(pp.p) \o bignum_to_mpi(pp.q) \o bignum_to_mpi(pp.g) \o bignum_to_mpi(pp.y)

\* openssl Hasher: a digest of the given length that depends on every input
\* byte.  SHA-1 gives 20 bytes, MD5 gives 16.
DigestLen(md) == CASE md = "sha1" -> 20 [] md = "md5" -> 16
Hasher(md, data) ==
    [i \in 1..DigestLen(md) |-> (SumSeq(data) * i + 7 * Len(data) + 31 * i) % 256]

\* PublicKey::fingerprint / PrivateKey::fingerprint (macro key!)
fingerprint(k) ==
    IF k.version = "V4"
    THEN LET packet == <<4>> \o BE32(k.created_at) \o <<AlgorithmId(k.algorithm)>>
                         \o KeyMaterial(k.public_params)
             length_buf == BE16(Len(packet))
         IN Hasher("sha1", <<153>> \o length_buf \o packet)
    ELSE Hasher("md5", KeyMaterial(k.public_params))

\* PublicKey::key_id / PrivateKey::key_id (macro key!): Option<Vec<u8>>, or the
\* panic of slicing [16..] out of a vector shorter than 16 bytes.
key_id(k) ==
    IF k.version = "V4"
    THEN Some(SliceFrom(fingerprint(k), 16))
    ELSE IF k.public_params.kind = "RSA"
         THEN IF Len(k.public_params.n) < 16
              THEN Panic("slice index starts at 16 but ends at len")
              ELSE Some(SliceFrom(k.public_params.n, 16))
         ELSE None

\* PublicKey::new / PrivateKey::new
KeyPacketNew(version, created_at, public_params) ==
    /\ keyPacket = NoKey
    /\ keyPacket' = [version |-> version, algorithm |-> public_params.kind,
                     created_at |-> created_at, public_params |-> public_params]
    /\ UNCHANGED <<fingerprintRes, keyIdRes, notKeyId>>

CallFingerprint ==
    /\ keyPacket # NoKey
    /\ fingerprintRes = NotCalled
    /\ fingerprintRes' = Returned(fingerprint(keyPacket))
    /\ UNCHANGED <<keyPacket, keyIdRes, notKeyId>>

CallKeyId ==
    /\ keyPacket # NoKey
    /\ keyIdRes = NotCalled
    /\ keyIdRes' = Returned(key_id(keyPacket))
    /\ UNCHANGED <<keyPacket, fingerprintRes, notKeyId>>

InitKeyId == Idle

NextKeyId ==
    \/ \E v \in KeyVersions, t \in {0, 1545000000}, pp \in RSAParams \cup DSAParams :
          KeyPacketNew(v, t, pp)
    \/ CallFingerprint
    \/ CallKeyId

SpecKeyId == InitKeyId /\ [][NextKeyId]_vars

\* ---------------------------------------------------------------- claims on key packets

\* C3: for every V4 key K (public or private), key_id(K) is the 8-byte value
\* equal to bytes 12..20 of the 20-byte SHA-1 fingerprint of K (the low 64
\* bits of the fingerprint).
C3_KeyIdIsLow64OfFingerprint ==
    (keyPacket # NoKey /\ keyPacket.version = "V4" /\ keyIdRes # NotCalled)
        => /\ Len(fingerprint(keyPacket)) = 20
           /\ keyIdRes = Returned(Some(SubSeq(fingerprint(keyPacket), 13, 20)))

\* the last 8 bytes of a modulus of at least 8 bytes
Low64(n) == SubSeq(n, Len(n) - 7, Len(n))

OldKeyIdReturned ==
    keyPacket # NoKey /\ keyPacket.version \in {"V2", "V3"} /\ keyIdRes # NotCalled

\* C25: for every V2 or V3 RSA key with a modulus of at least 8 bytes key_id
\* is the last 8 bytes of the modulus n; for a V2 or V3 key that is not RSA
\* key_id is None
C25_OldKeyIdIsLow64OfModulus ==
    OldKeyIdReturned =>
        IF keyPacket.public_params.kind = "RSA"
        THEN Len(keyPacket.public_params.n) >= 8
                => keyIdRes = Returned(Some(Low64(keyPacket.public_params.n)))
        ELSE keyIdRes = Returned(None)

\* what the code does: the key id of a V2 or V3 RSA key is the modulus
\* without its first 16 bytes, which is its last 8 bytes only for a modulus
\* of 24 bytes, and the call panics for a modulus shorter than 16 bytes
OldKeyIdIsModulusFrom16 ==
    OldKeyIdReturned =>
        IF keyPacket.public_params.kind = "RSA"
        THEN /\ ("panic" \in DOMAIN keyIdRes.ret) <=> Len(keyPacket.public_params.n) < 16
             /\ ("panic" \notin DOMAIN keyIdRes.ret) =>
                   /\ Len(keyIdRes.ret.val) = Len(keyPacket.public_params.n) - 16
                   /\ (keyIdRes.ret = Some(Low64(keyPacket.public_params.n)))
                         <=> Len(keyPacket.public_params.n) = 24
        ELSE keyIdRes = Returned(None)

\* ================================================================ key composer
\* src/src/composed/key_parser.rs, src/src/composed/signed_key/shared.rs

Flavours == {"Public", "Secret"}

\* $key_tag and $subkey_tag of the two key_parser! instances
key_tag(f) == IF f = "Public" THEN "PublicKey" ELSE "SecretKey"
subkey_tag(f) == IF f = "Public" THEN "PublicSubkey" ELSE "SecretSubkey"

\* A packet is its tag, the one attribute the composer reads (a key's version,
\* a signature's type) and its position in the stream it came from, which
\* tells equal-looking packets apart.
Pkt(tag, attr, pos) == [tag |-> tag, attr |-> attr, pos |-> pos]

PrimaryKinds(f) == { <<key_tag(f), "V4">>, <<key_tag(f), "V3">>, <<key_tag(f), "V2">> }
RestKinds(f) ==
    { <<"Signature", "KeyRevocation">>, <<"Signature", "CertPositive">>,
      <<"UserId", "-">>, <<"UserAttribute", "-">>,
      <<subkey_tag(f), "V4">>, <<key_tag(f), "V4">>, <<"Trust", "-">> }

SeqsUpTo(S, n) == UNION { [1..k -> S] : k \in 0..n }

Stream(kinds) == [i \in 1..Len(kinds) |-> Pkt(kinds[i][1], kinds[i][2], i)]

\* the packet streams of the model: a primary key packet and up to MaxRest
\* packets after it, and the short streams that do not start with one
KeyStreams(f) ==
    { Stream(<<k>> \o r) : k \in PrimaryKinds(f), r \in SeqsUpTo(RestKinds(f), MaxRest) }
      \cup { Stream(r) : r \in SeqsUpTo(RestKinds(f), 2) }

IsTag(ps, i, tags) == i <= Len(ps) /\ ps[i].tag \in tags

\* while let Some(true) = packets.peek().map(|p| p.tag() == Tag::Signature):
\* the index after the run of Signature packets that starts at i
RECURSIVE SigRunEnd(_, _)
SigRunEnd(ps, i) == IF IsTag(ps, i, {"Signature"}) THEN SigRunEnd(ps, i + 1) ELSE i

\* SignedUser::new / SignedUserAttribute::new / $subkey_type::new
Signed(id, sigs) == [id |-> id, signatures |-> sigs]

\* the loop over User ID and User Attribute packets: (users, attributes, next index)
RECURSIVE UserLoop(_, _, _, _)
UserLoop(ps, i, users, user_attributes) ==
    IF IsTag(ps, i, {"UserId", "UserAttribute"})
    THEN LET j == SigRunEnd(ps, i + 1)
             el == Signed(ps[i], SubSeq(ps, i + 1, j - 1))
         IN IF ps[i].tag = "UserId"
            THEN UserLoop(ps, j, Append(users, el), user_attributes)
            ELSE UserLoop(ps, j, users, Append(user_attributes, el))
    ELSE [users |-> users, user_attributes |-> user_attributes, next |-> i]

\* the loop over subkey packets: (subkeys, next index)
RECURSIVE SubkeyLoop(_, _, _, _)
SubkeyLoop(f, ps, i, subkeys) ==
    IF IsTag(ps, i, {subkey_tag(f)})
    THEN LET j == SigRunEnd(ps, i + 1)
         IN SubkeyLoop(f, ps, j, Append(subkeys, Signed(ps[i], SubSeq(ps, i + 1, j - 1))))
    ELSE [subkeys |-> subkeys, next |-> i]

HasSignature(el) == el.signatures # <<>>

\* new without the two filters
SignedKeyDetailsNewUnfiltered(revocation_signatures, direct_signatures, users, user_attributes) ==
    [revocation_signatures |-> revocation_signatures,
     direct_signatures |-> direct_signatures,
     users |-> users,
     user_attributes |-> user_attributes]

\* SignedKeyDetails::new: users and attributes without signatures are dropped
SignedKeyDetailsNew(revocation_signatures, direct_signatures, users, user_attributes) ==
    [revocation_signatures |-> revocation_signatures,
     direct_signatures |-> direct_signatures,
     users |-> SelectSeq(users, HasSignature),
     user_attributes |-> SelectSeq(user_attributes, HasSignature)]

\* $key_type::new: the key built from the parts the composer collected
KeyNew(primary_key, revocation_signatures, direct_signatures, users, user_attributes, subkeys) ==
    [primary_key |-> primary_key,
     details |-> SignedKeyDetailsNew(revocation_signatures, direct_signatures,
                                     users, user_attributes),
     subkeys |-> subkeys]

IsRevocation(sig) == sig.attr = "KeyRevocation"
IsNotRevocation(sig) == sig.attr # "KeyRevocation"

\* the check that at least one User ID packet was read
UsersPresent(users) == users # <<>>

\* from_packets_single without the test of the primary key's version
FromPacketsSingleAnyVersion(f, ps) ==
    IF ps = <<>> THEN Err("missing primary key")
    ELSE IF ps[1].tag # key_tag(f) THEN Err("try_into: not a primary key packet")
    ELSE
      LET primary_key == ps[1]
          sigEnd == SigRunEnd(ps, 2)
          sigs == SubSeq(ps, 2, sigEnd - 1)
          revocation_signatures == SelectSeq(sigs, IsRevocation)
          direct_signatures == SelectSeq(sigs, IsNotRevocation)
          ul == UserLoop(ps, sigEnd, <<>>, <<>>)
          sl == SubkeyLoop(f, ps, ul.next, <<>>)
      IN IF ~UsersPresent(ul.users) THEN Err("missing user ids")
         ELSE IF ul.next <= Len(ps) /\ sl.next <= Len(ps)
              THEN Err("failed to process all packets")
         ELSE Ok(KeyNew(primary_key, revocation_signatures, direct_signatures,
                        ul.users, ul.user_attributes, sl.subkeys))

\* $key_type::from_packets_single
from_packets_single(f, ps) ==
    IF ps = <<>> THEN Err("missing primary key")
    ELSE IF ps[1].tag # key_tag(f) THEN Err("try_into: not a primary key packet")
    ELSE
      LET primary_key == ps[1]
          sigEnd == SigRunEnd(ps, 2)
          sigs == SubSeq(ps, 2, sigEnd - 1)
          revocation_signatures == SelectSeq(sigs, IsRevocation)
          direct_signatures == SelectSeq(sigs, IsNotRevocation)
          ul == UserLoop(ps, sigEnd, <<>>, <<>>)
          sl == SubkeyLoop(f, ps, ul.next, <<>>)
      IN IF ~UsersPresent(ul.users) THEN Err("missing user ids")
         ELSE IF ul.next <= Len(ps) /\ primary_key.attr # "V4"
              THEN Err("only V4 keys can have subkeys")
         ELSE IF ul.next <= Len(ps) /\ sl.next <= Len(ps)
              THEN Err("failed to process all packets")
         ELSE Ok(KeyNew(primary_key, revocation_signatures, direct_signatures,
                        ul.users, ul.user_attributes, sl.subkeys))

\* group_by(ctr): the stream cut before every packet that carries $key_tag
RECURSIVE GroupByKey(_, _, _, _)
GroupByKey(f, ps, i, groups) ==
    IF i > Len(ps) THEN groups
    ELSE IF groups = <<>> \/ ps[i].tag = key_tag(f)
         THEN GroupByKey(f, ps, i + 1, Append(groups, <<ps[i]>>))
         ELSE GroupByKey(f, ps, i + 1,
                         [groups EXCEPT ![Len(groups)] = Append(@, ps[i])])

\* a collect that leaves the failed groups out
RECURSIVE CollectSkipsErrors(_, _)
CollectSkipsErrors(rs, acc) ==
    IF rs = <<>> THEN Ok(acc)
    ELSE IF ~Head(rs).ok THEN CollectSkipsErrors(Tail(rs), acc)
         ELSE CollectSkipsErrors(Tail(rs), Append(acc, Head(rs).val))

\* collect::<Result<_>>(): the first error, or all the values
RECURSIVE CollectResults(_, _)
CollectResults(rs, acc) ==
    IF rs = <<>> THEN Ok(acc)
    ELSE IF ~Head(rs).ok THEN Head(rs)
         ELSE CollectResults(Tail(rs), Append(acc, Head(rs).val))

\* Deserializable::from_packets for $key_type
from_packets(f, ps) ==
    LET groups == GroupByKey(f, ps, 1, <<>>)
    IN CollectResults([g \in 1..Len(groups) |-> from_packets_single(f, groups[g])], <<>>)

\* Deserializable::from_bytes, on the packets the bytes hold
from_bytes(f, ps) ==
    LET el == from_packets(f, ps)
    IN IF ~el.ok THEN el
       ELSE IF Len(el.val) > 1 THEN Err("TooManyPackets")
       ELSE IF Len(el.val) = 0 THEN Err("NoMatchingPacket")
       ELSE Ok(el.val[1])

RECURSIVE Flatten(_)
Flatten(ss) == IF ss = <<>> THEN <<>> ELSE Head(ss) \o Flatten(Tail(ss))

\* SignedUser / SignedUserAttribute / signed subkey to_writer: the packet, then
\* its signatures
SignedToWriter(el) == <<el.id>> \o el.signatures

\* Serialize for SignedKeyDetails
DetailsToWriter(d) ==
    d.revocation_signatures \o d.direct_signatures
      \o Flatten([i \in 1..Len(d.users) |-> SignedToWriter(d.users[i])])
      \o Flatten([i \in 1..Len(d.user_attributes) |-> SignedToWriter(d.user_attributes[i])])

\* Serialize for a composed key: primary key, details, subkeys
KeyToWriter(k) ==
    <<k.primary_key>> \o DetailsToWriter(k.details)
      \o Flatten([i \in 1..Len(k.subkeys) |-> SignedToWriter(k.subkeys[i])])

\* ---- actions

CallFromPackets ==
    /\ parsed = NotCalled
    /\ \E f \in Flavours : \E ps \in KeyStreams(f) :
          /\ flavour' = f
          /\ packets' = ps
          /\ parsed' = Returned(from_packets(f, ps))
    /\ UNCHANGED <<written, reparsed, notKey>>

\* to_writer on the i-th key that from_packets returned
CallToWriter ==
    /\ parsed # NotCalled /\ parsed.ret.ok
    /\ written = NotCalled
    /\ \E i \in 1..Len(parsed.ret.val) :
          written' = Returned([key |-> parsed.ret.val[i],
                               out |-> KeyToWriter(parsed.ret.val[i])])
    /\ UNCHANGED <<flavour, packets, parsed, reparsed, notKey>>

\* from_bytes on what to_writer emitted
CallFromBytes ==
    /\ written # NotCalled
    /\ reparsed = NotCalled
    /\ reparsed' = Returned(from_bytes(flavour, written.ret.out))
    /\ UNCHANGED <<flavour, packets, parsed, written, notKey>>

InitKey == Idle

NextKey ==
    \/ CallFromPackets
    \/ CallToWriter
    \/ CallFromBytes

SpecKey == InitKey /\ [][NextKey]_vars

\* ---------------------------------------------------------------- claims on the key composer

ComposedKeys == IF parsed # NotCalled /\ parsed.ret.ok THEN parsed.ret.val ELSE <<>>

\* C4: every Transferable Key the key composer returns has a non-empty users
\* list after construction (after the users without signatures were dropped);
\* a packet sequence that would leave the key without any user fails.
C4_ComposedKeyHasUsers ==
    \A i \in 1..Len(ComposedKeys) : ComposedKeys[i].details.users # <<>>

\* C8: composing the packet sequence that the serialization of a composed key K
\* emits returns exactly one key, and that key is structurally equal to K.
C8_SerializeParseRoundTrip ==
    reparsed # NotCalled => reparsed.ret = Ok(written.ret.key)

RECURSIVE Increasing(_)
Increasing(ns) ==
    Len(ns) <= 1 \/ (ns[1] < ns[2] /\ Increasing(Tail(ns)))

Positions(ps) == [i \in 1..Len(ps) |-> ps[i].pos]

\* C9: the packets written when a composed key is serialized list the retained
\* packets in the same relative order as the input stream.
C9_SerializationKeepsStreamOrder ==
    written # NotCalled => Increasing(Positions(written.ret.out))

\* the indices of the packets that carry $key_tag
KeyStarts(f, ps) ==
    LET IsKey(i) == ps[i].tag = key_tag(f)
    IN  SelectSeq([i \in 1..Len(ps) |-> i], IsKey)

\* the k-th primary-key packet and the packets after it, up to the next
\* primary-key packet or the end of the stream
KeyGroup(f, ps, k) ==
    LET st == KeyStarts(f, ps)
    IN  SubSeq(ps, st[k], IF k < Len(st) THEN st[k + 1] - 1 ELSE Len(ps))

\* a User ID or User Attribute packet that no Signature packet follows
UnsignedAt(g, i) ==
    g[i].tag \in {"UserId", "UserAttribute"} /\ ~IsTag(g, i + 1, {"Signature"})

\* the packets of the group that a key built from all of it holds
KeptPackets(g) == {g[i] : i \in {j \in 1..Len(g) : ~UnsignedAt(g, j)}}

PacketsOf(k) == {KeyToWriter(k)[i] : i \in 1..Len(KeyToWriter(k))}

StartsWithPrimary == packets # <<>> /\ packets[1].tag = key_tag(flavour)

\* C15: on a stream whose first packet is a primary-key packet, from_packets
\* returns on success one key for every packet with the primary-key tag, in
\* stream order, each built from that packet and the packets after it up to
\* the next primary-key packet; when composing one of these groups fails, the
\* whole call fails.
C15_OneKeyPerPrimaryPacket ==
    (parsed # NotCalled /\ StartsWithPrimary) =>
        LET st == KeyStarts(flavour, packets)
        IN  /\ parsed.ret.ok =>
                 /\ Len(parsed.ret.val) = Len(st)
                 /\ \A k \in 1..Len(st) :
                       /\ parsed.ret.val[k].primary_key = packets[st[k]]
                       /\ PacketsOf(parsed.ret.val[k]) =
                             KeptPackets(KeyGroup(flavour, packets, k))
            /\ (\E k \in 1..Len(st) :
                   ~from_packets_single(flavour, KeyGroup(flavour, packets, k)).ok)
                 => ~parsed.ret.ok

\* two keys came out of a stream with two primary-key packets, the first of
\* them with a signed user
C15_Witness ==
    /\ parsed # NotCalled /\ parsed.ret.ok
    /\ StartsWithPrimary
    /\ Len(KeyStarts(flavour, packets)) = 2
    /\ Len(parsed.ret.val) = 2
    /\ parsed.ret.val[1].details.users # <<>>
    /\ parsed.ret.val[2].primary_key.pos > 1

\* the packet at i is a subkey packet
SubkeyAt(f, g, i) == g[i].tag = subkey_tag(f)

\* the tags of a group that can be consumed whole: the primary key, then
\* signatures, users and attributes, then subkeys and signatures only
ConsumableWhole(f, g) ==
    /\ \A i \in 2..Len(g) :
          g[i].tag \in {"Signature", "UserId", "UserAttribute", subkey_tag(f)}
    /\ \A i \in 1..Len(g) : \A j \in 1..Len(g) :
          (i < j /\ SubkeyAt(f, g, i)) => g[j].tag \in {"Signature", subkey_tag(f)}

\* C16: every composed key with subkeys has a V4 primary key: composing a V2
\* or V3 primary key whose group holds a subkey packet fails, and on success
\* every packet of the group has been consumed (a packet left after the
\* subkeys makes the composition fail).
C16_SubkeysOnlyOnV4 ==
    (parsed # NotCalled /\ StartsWithPrimary) =>
        LET st == KeyStarts(flavour, packets)
        IN  /\ \A k \in 1..Len(ComposedKeys) :
                  ComposedKeys[k].subkeys # <<>> =>
                      ComposedKeys[k].primary_key.attr = "V4"
            /\ \A k \in 1..Len(st) :
                  LET g == KeyGroup(flavour, packets, k)
                  IN  /\ (g[1].attr # "V4" /\ \E i \in 1..Len(g) : SubkeyAt(flavour, g, i))
                            => ~parsed.ret.ok
                      /\ parsed.ret.ok =>
                            /\ ConsumableWhole(flavour, g)
                            /\ Len(KeyToWriter(parsed.ret.val[k]))
                                 + Cardinality({i \in 1..Len(g) : UnsignedAt(g, i)})
                                   = Len(g)

\* a V2 or V3 primary key with a user and a subkey after it was refused
C16_Witness ==
    /\ parsed # NotCalled
    /\ Len(packets) >= 3
    /\ packets[1].tag = key_tag(flavour) /\ packets[1].attr \in {"V2", "V3"}
    /\ packets[2].tag = "UserId"
    /\ packets[3].tag = subkey_tag(flavour)
    /\ parsed.ret = Err("only V4 keys can have subkeys")

\* ---------------------------------------------------------------- verification of a composed key
\* composed/signed_key/shared.rs, SignedKeyDetails::verify

\* most items (users, attributes, signatures) in one list of the details
MaxItems == 2

\* the keys a signature can have been made with, and verify can be called with
VerifyKeys == {"keyA", "keyB"}

Lists == <<"users", "user_attributes", "revocation_signatures", "direct_signatures">>

\* an item of list l at index i whose signatures were made with key signer
Item(l, i, signer) == [list |-> l, index |-> i, signer |-> signer]

\* every content of the list l: up to MaxItems items, each signed by some key
ItemLists(l) ==
    UNION {{[i \in 1..n |-> Item(l, i, f[i])] : f \in [1..n -> VerifyKeys]} : n \in 0..MaxItems}

\* SignedUser::verify, SignedUserAttribute::verify: the signatures of the item
\* verify against key, or the error of this item comes back
ItemVerify(item, key) ==
    IF item.signer = key THEN Ok("unit")
    ELSE Err([failed |-> item.list, index |-> item.index])

\* Signature::verify_key
verify_key(sig, key) ==
    IF sig.signer = key THEN Ok("unit")
    ELSE Err([failed |-> sig.list, index |-> sig.index])

\* the ? operator: the error of r returns at once, otherwise the rest runs
Try(r, rest) == IF r.ok THEN rest ELSE r

RECURSIVE verify_users(_, _)
verify_users(users, key) ==
    IF users = <<>> THEN Ok("unit")
    ELSE Try(ItemVerify(Head(users), key), verify_users(Tail(users), key))

RECURSIVE verify_attributes(_, _)
verify_attributes(attrs, key) ==
    IF attrs = <<>> THEN Ok("unit")
    ELSE Try(ItemVerify(Head(attrs), key), verify_attributes(Tail(attrs), key))

RECURSIVE verify_revocation_signatures(_, _)
verify_revocation_signatures(sigs, key) ==
    IF sigs = <<>> THEN Ok("unit")
    ELSE Try(verify_key(Head(sigs), key), verify_revocation_signatures(Tail(sigs), key))

RECURSIVE verify_direct_signatures(_, _)
verify_direct_signatures(sigs, key) ==
    IF sigs = <<>> THEN Ok("unit")
    ELSE Try(verify_key(Head(sigs), key), verify_direct_signatures(Tail(sigs), key))

\* verify with the lists walked in another order: direct signatures before
\* revocation signatures, attributes before users
VerifyOtherOrder(d, key) ==
    Try(verify_attributes(d.user_attributes, key),
    Try(verify_users(d.users, key),
    Try(verify_direct_signatures(d.direct_signatures, key),
    Try(verify_revocation_signatures(d.revocation_signatures, key),
        Ok("unit")))))

\* SignedKeyDetails::verify
verify(d, key) ==
    Try(verify_users(d.users, key),
    Try(verify_attributes(d.user_attributes, key),
    Try(verify_revocation_signatures(d.revocation_signatures, key),
    Try(verify_direct_signatures(d.direct_signatures, key),
        Ok("unit")))))

\* some details come into being (SignedKeyDetails::new has run)
DetailsNew(revs, directs, users, attrs) ==
    /\ details = NoDetails
    /\ details' = [revocation_signatures |-> revs, direct_signatures |-> directs,
                   users |-> users, user_attributes |-> attrs]
    /\ UNCHANGED <<verifyRes, notVerify>>

CallVerify(key) ==
    /\ details # NoDetails
    /\ verifyRes = NotCalled
    /\ verifyRes' = [called |-> TRUE, key |-> key, ret |-> verify(details, key)]
    /\ UNCHANGED <<details, notVerify>>

InitVerify == Idle

NextVerify ==
    \/ /\ details = NoDetails
       /\ \E revs \in ItemLists("revocation_signatures"),
             directs \in ItemLists("direct_signatures"),
             users \in ItemLists("users"),
             attrs \in ItemLists("user_attributes") :
             DetailsNew(revs, directs, users, attrs)
    \/ \E key \in VerifyKeys : CallVerify(key)

SpecVerify == InitVerify /\ [][NextVerify]_vars

\* ---------------------------------------------------------------- claims on verification

\* the items of the details in the order users, attributes, revocation
\* signatures, direct signatures
InVerifyOrder(d) ==
    d.users \o d.user_attributes \o d.revocation_signatures \o d.direct_signatures

\* the positions, in that order, of the items that do not verify against key
Failing(d, key) ==
    {i \in 1..Len(InVerifyOrder(d)) : InVerifyOrder(d)[i].signer # key}

Min(S) == CHOOSE x \in S : \A y \in S : x <= y

\* C7: verify returns Ok if and only if every user, user attribute, revocation
\* signature and direct signature verifies against the given key; otherwise it
\* returns the error of the first failing item in the order users, attributes,
\* revocation signatures, direct signatures.
C7_VerifyReturnsFirstFailure ==
    verifyRes # NotCalled =>
        LET failing == Failing(details, verifyRes.key)
            first == InVerifyOrder(details)[Min(failing)]
        IN  /\ verifyRes.ret.ok <=> failing = {}
            /\ failing # {} =>
                   verifyRes.ret = Err([failed |-> first.list, index |-> first.index])

\* verify has returned the error of a failing attribute although a revocation
\* signature and a direct signature fail too and all users verify
C7_Witness ==
    /\ verifyRes # NotCalled
    /\ ~verifyRes.ret.ok
    /\ details.users # <<>>
    /\ verifyRes.ret.err.failed = "user_attributes"
    /\ \E i \in 1..Len(details.revocation_signatures) :
          details.revocation_signatures[i].signer # verifyRes.key
    /\ \E i \in 1..Len(details.direct_signatures) :
          details.direct_signatures[i].signer # verifyRes.key

\* ---------------------------------------------------------------- construction of the details
\* composed/signed_key/shared.rs, SignedKeyDetails::new

\* the signatures of the model: up to MaxItems Signature packets
SigLists == {[i \in 1..n |-> Pkt("Signature", "CertPositive", i)] : n \in 0..MaxItems}

\* the lists of users (attributes) handed to new: up to MaxItems of them, each
\* with its own signatures, told apart by their position
SignedLists(tag) ==
    UNION {{[i \in 1..n |-> Signed(Pkt(tag, "-", i), sigs[i])] : sigs \in [1..n -> SigLists]}
             : n \in 0..MaxItems}

CallSignedKeyDetailsNew(revs, directs, users, attrs) ==
    /\ newDetails = NotCalled
    /\ newDetails' =
          [called |-> TRUE,
           revocation_signatures |-> revs, direct_signatures |-> directs,
           users |-> users, user_attributes |-> attrs,
           ret |-> SignedKeyDetailsNew(revs, directs, users, attrs)]
    /\ UNCHANGED notNew

InitNew == Idle

NextNew ==
    /\ newDetails = NotCalled
    /\ \E revs \in SigLists, directs \in SigLists,
          users \in SignedLists("UserId"), attrs \in SignedLists("UserAttribute") :
          CallSignedKeyDetailsNew(revs, directs, users, attrs)

SpecNew == InitNew /\ [][NextNew]_vars

\* ---------------------------------------------------------------- claims on the construction

\* the indices of the elements that carry a signature
SignedIdx(s) == {i \in 1..Len(s) : Len(s[i].signatures) >= 1}

\* the j-th smallest element of the set of numbers S
Nth(S, j) == CHOOSE i \in S : Cardinality({m \in S : m <= i}) = j

\* out holds exactly the elements of in that carry a signature, in the order
\* they have in in
KeepsTheSigned(out, in) ==
    /\ Len(out) = Cardinality(SignedIdx(in))
    /\ \A j \in 1..Len(out) : out[j] = in[Nth(SignedIdx(in), j)]

\* C17: SignedKeyDetails::new keeps exactly the users and user attributes that
\* carry at least one signature, in their original relative order, and passes
\* the revocation and direct signature lists through unchanged; every user and
\* attribute of the constructed details has at least one signature.
C17_NewKeepsTheSigned ==
    newDetails # NotCalled =>
        /\ KeepsTheSigned(newDetails.ret.users, newDetails.users)
        /\ KeepsTheSigned(newDetails.ret.user_attributes, newDetails.user_attributes)
        /\ newDetails.ret.revocation_signatures = newDetails.revocation_signatures
        /\ newDetails.ret.direct_signatures = newDetails.direct_signatures
        /\ \A i \in 1..Len(newDetails.ret.users) :
              newDetails.ret.users[i].signatures # <<>>
        /\ \A i \in 1..Len(newDetails.ret.user_attributes) :
              newDetails.ret.user_attributes[i].signatures # <<>>

\* new was handed an unsigned user in front of a signed one and an unsigned
\* attribute, and dropped the two unsigned ones
C17_Witness ==
    /\ newDetails # NotCalled
    /\ Len(newDetails.users) = 2
    /\ newDetails.users[1].signatures = <<>>
    /\ newDetails.users[2].signatures # <<>>
    /\ newDetails.ret.users = <<newDetails.users[2]>>
    /\ Len(newDetails.user_attributes) = 1
    /\ newDetails.ret.user_attributes = <<>>
    /\ newDetails.revocation_signatures # <<>>

\* ---------------------------------------------------------------- the message composer
\* composed/message_parser.rs, Message::from_packets

\* most packets in one stream handed to Message::from_packets
MaxMsgPackets == 4

EskTags == {"PublicKeyEncryptedSessionKey", "SymKeyEncryptedSessionKey"}
EdataTags == {"SymEncryptedData", "SymEncryptedProtectedData"}

\* the tags the loop tells apart; UserId stands for every other tag
MsgTags ==
    {"LiteralData", "CompressedData", "Signature", "OnePassSignature", "Marker", "UserId"}
      \cup EskTags \cup EdataTags

\* the packet with this tag at position pos of the stream
MsgPkt(tag, pos) == [tag |-> tag, pos |-> pos]

\* the variants of Message
Literal(p) == [kind |-> "Literal", packet |-> p]
Compressed(p) == [kind |-> "Compressed", packet |-> p]
Encrypted(esk, edata, protected) ==
    [kind |-> "Encrypted", esk |-> esk, edata |-> edata, protected |-> protected]
SignedMsg(message, one_pass_signature, signature) ==
    [kind |-> "Signed", message |-> message,
     one_pass_signature |-> one_pass_signature, signature |-> signature]

\* the locals of from_packets; res is NotCalled until the function returns
Locals(st, c, e, res) == [stack |-> st, cur |-> c, is_edata |-> e, res |-> res]

\* bail!(msg) / a failed ensure!: the function returns the error
Bail(l, msg) == [l EXCEPT !.res = Returned(Err(msg))]

\* stack[i] of the Rust code, i counted from 0
At(st, i) == st[i + 1]

ReplaceAt(st, i, msg) == [st EXCEPT ![i + 1] = msg]

\* Tag::LiteralData
on_literal(l, p) ==
    IF l.cur.some
    THEN IF At(l.stack, l.cur.val).kind = "Signed"
         THEN [l EXCEPT !.stack = ReplaceAt(l.stack, l.cur.val,
                   [At(l.stack, l.cur.val) EXCEPT !.message = Some(Literal(p))])]
         ELSE Bail(l, "unexpected literal")
    ELSE [l EXCEPT !.stack = Append(l.stack, Literal(p))]

\* Tag::CompressedData
on_compressed(l, p) ==
    IF l.cur.some
    THEN IF At(l.stack, l.cur.val).kind = "Signed"
         THEN [l EXCEPT !.stack = ReplaceAt(l.stack, l.cur.val,
                   [At(l.stack, l.cur.val) EXCEPT !.message = Some(Literal(p))])]
         ELSE Bail(l, "unexpected packet")
    ELSE [l EXCEPT !.stack = Append(l.stack, Compressed(p))]

\* the esk arm without the ensure!(!is_edata) in front of it
EskWithoutEdataCheck(l, p) ==
    IF ~l.cur.some
    THEN [l EXCEPT !.stack = Append(l.stack, Encrypted(<<p>>, <<>>, FALSE)),
                   !.cur = Some(Len(l.stack))]
    ELSE IF At(l.stack, l.cur.val).kind = "Encrypted"
         THEN [l EXCEPT !.stack = ReplaceAt(l.stack, l.cur.val,
                   [At(l.stack, l.cur.val) EXCEPT !.esk = Append(@, p)])]
         ELSE Bail(l, "bad esk init")

\* Tag::PublicKeyEncryptedSessionKey | Tag::SymKeyEncryptedSessionKey
on_esk(l, p) ==
    IF l.is_edata THEN Bail(l, "edata should not be followed by esk")
    ELSE IF ~l.cur.some
    THEN [l EXCEPT !.stack = Append(l.stack, Encrypted(<<p>>, <<>>, FALSE)),
                   !.cur = Some(Len(l.stack))]
    ELSE IF At(l.stack, l.cur.val).kind = "Encrypted"
         THEN [l EXCEPT !.stack = ReplaceAt(l.stack, l.cur.val,
                   [At(l.stack, l.cur.val) EXCEPT !.esk = Append(@, p)])]
         ELSE Bail(l, "bad esk init")

update_encrypted(el, p) ==
    [el EXCEPT !.protected = (p.tag = "SymEncryptedProtectedData"),
               !.edata = Append(@, p)]

\* update_signed that rebuilds the Signed message without its one-pass packet
UpdateSignedDropsOnePass(el, p) ==
    IF el.message.some
    THEN IF el.message.val.kind = "Encrypted"
         THEN Ok([el EXCEPT !.message = Some(update_encrypted(el.message.val, p)),
                            !.one_pass_signature = None])
         ELSE Err("bad edata init in signed message")
    ELSE Ok([el EXCEPT !.message =
                Some(Encrypted(<<>>, <<p>>, p.tag = "SymEncryptedProtectedData")),
                       !.one_pass_signature = None])

\* Ok(message) or Err(msg)
update_signed(el, p) ==
    IF el.message.some
    THEN IF el.message.val.kind = "Encrypted"
         THEN Ok([el EXCEPT !.message = Some(update_encrypted(el.message.val, p))])
         ELSE Err("bad edata init in signed message")
    ELSE Ok([el EXCEPT !.message =
                Some(Encrypted(<<>>, <<p>>, p.tag = "SymEncryptedProtectedData"))])

update_message(el, p) ==
    IF el.kind = "Encrypted" THEN Ok(update_encrypted(el, p))
    ELSE IF el.kind = "Signed" THEN update_signed(el, p)
    ELSE Err("bad edata init")

\* Tag::SymEncryptedData | Tag::SymEncryptedProtectedData; is_edata is set
\* before anything can fail
on_edata(l, p) ==
    LET l1 == [l EXCEPT !.is_edata = TRUE]
    IN  IF l.cur.some
        THEN LET el == l.stack[Len(l.stack)]
                 popped == SubSeq(l.stack, 1, Len(l.stack) - 1)
                 upd == update_message(el, p)
             IN  IF upd.ok THEN [l1 EXCEPT !.stack = Append(popped, upd.val)]
                 ELSE [l1 EXCEPT !.stack = popped, !.res = Returned(Err(upd.err))]
        ELSE [l1 EXCEPT !.stack = Append(l.stack,
                            Encrypted(<<>>, <<p>>, p.tag = "SymEncryptedProtectedData")),
                        !.cur = Some(Len(l.stack))]

\* the Signature arm that leaves the Signed message open
OnSignatureKeepsOpen(l, p) ==
    IF l.cur.some
    THEN IF At(l.stack, l.cur.val).kind = "Signed"
         THEN [l EXCEPT !.stack = ReplaceAt(l.stack, l.cur.val,
                   [At(l.stack, l.cur.val) EXCEPT !.signature = Some(p)])]
         ELSE Bail(l, "unexpected signature")
    ELSE [l EXCEPT !.stack = Append(l.stack, SignedMsg(None, None, Some(p)))]

\* Tag::Signature
on_signature(l, p) ==
    IF l.cur.some
    THEN IF At(l.stack, l.cur.val).kind = "Signed"
         THEN [l EXCEPT !.stack = ReplaceAt(l.stack, l.cur.val,
                   [At(l.stack, l.cur.val) EXCEPT !.signature = Some(p)]),
                        !.cur = None]
         ELSE Bail(l, "unexpected signature")
    ELSE [l EXCEPT !.stack = Append(l.stack, SignedMsg(None, None, Some(p)))]

\* the OnePassSignature arm that opens the new message only when none is open
OnePassKeepsTheOpenMessage(l, p) ==
    [l EXCEPT !.stack = Append(l.stack, SignedMsg(None, Some(p), None)),
              !.cur = IF l.cur.some THEN l.cur ELSE Some(Len(l.stack))]

\* Tag::OnePassSignature
on_one_pass_signature(l, p) ==
    [l EXCEPT !.stack = Append(l.stack, SignedMsg(None, Some(p), None)),
              !.cur = Some(Len(l.stack))]

\* one round of the loop: match tag { ... }
loop_body(l, p) ==
    CASE p.tag = "LiteralData" -> on_literal(l, p)
      [] p.tag = "CompressedData" -> on_compressed(l, p)
      [] p.tag \in EskTags -> on_esk(l, p)
      [] p.tag \in EdataTags -> on_edata(l, p)
      [] p.tag = "Signature" -> on_signature(l, p)
      [] p.tag = "OnePassSignature" -> on_one_pass_signature(l, p)
      [] p.tag = "Marker" -> l
      [] OTHER -> Bail(l, "unexpected packet")

\* the loop takes the next packet, of tag tag, from the iterator
NextPacket(tag) ==
    /\ msgRes = NotCalled
    /\ Len(consumed) < MaxMsgPackets
    /\ LET p == MsgPkt(tag, Len(consumed) + 1)
           l == loop_body(Locals(stack, cur, is_edata, msgRes), p)
       IN  /\ consumed' = Append(consumed, p)
           /\ stack' = l.stack
           /\ cur' = l.cur
           /\ is_edata' = l.is_edata
           /\ msgRes' = l.res
    /\ UNCHANGED notMsg

\* the iterator is exhausted: Ok(stack)
EndOfPackets ==
    /\ msgRes = NotCalled
    /\ msgRes' = Returned(Ok(stack))
    /\ UNCHANGED <<consumed, stack, cur, is_edata, notMsg>>

InitMsg == Idle

NextMsg ==
    \/ NextPacket("LiteralData")
    \/ NextPacket("CompressedData")
    \/ \E tag \in EskTags : NextPacket(tag)
    \/ \E tag \in EdataTags : NextPacket(tag)
    \/ NextPacket("Signature")
    \/ NextPacket("OnePassSignature")
    \/ NextPacket("Marker")
    \/ NextPacket("UserId")
    \/ EndOfPackets

SpecMsg == InitMsg /\ [][NextMsg]_vars

\* ---------------------------------------------------------------- claims on the message composer

\* while the loop runs, the open message is the last one of the stack
OpenIsLast == (msgRes = NotCalled /\ cur.some) => cur.val = Len(stack) - 1

\* the step takes an esk packet from the iterator
EskArrives ==
    /\ msgRes = NotCalled
    /\ Len(consumed') = Len(consumed) + 1
    /\ consumed'[Len(consumed')].tag \in EskTags

Failed(res) == res # NotCalled /\ ~res.ret.ok

\* C10: an esk packet p (PKESK or SKESK) that arrives after an encrypted-data
\* packet has been seen, or while a Signed message is open, makes from_packets
\* fail; otherwise, when no message is open it pushes Encrypted{esk=[p],
\* edata=[]} and makes it the open message, and when an Encrypted message is
\* open it is appended to the esk of that message.
C10_EskHandling ==
    [][EskArrives =>
        LET p == consumed'[Len(consumed')]
        IN  IF is_edata THEN Failed(msgRes')
            ELSE IF cur = None
            THEN /\ stack' = Append(stack, Encrypted(<<p>>, <<>>, FALSE))
                 /\ cur' = Some(Len(stack') - 1)
                 /\ msgRes' = NotCalled
            ELSE IF At(stack, cur.val).kind = "Encrypted"
            THEN /\ Len(stack') = Len(stack)
                 /\ \A i \in 1..Len(stack) : i # cur.val + 1 => stack'[i] = stack[i]
                 /\ At(stack', cur.val) =
                       [At(stack, cur.val) EXCEPT !.esk = Append(@, p)]
                 /\ cur' = cur
                 /\ msgRes' = NotCalled
            ELSE At(stack, cur.val).kind = "Signed" /\ Failed(msgRes')
      ]_vars

\* one esk packet opened an Encrypted message, a second one was appended to
\* it, and a third one, after the encrypted data, made the composition fail
C10_Witness ==
    /\ Len(consumed) = 4
    /\ consumed[1].tag \in EskTags /\ consumed[2].tag \in EskTags
    /\ consumed[3].tag \in EdataTags /\ consumed[4].tag \in EskTags
    /\ Failed(msgRes)
    /\ stack[1].esk = <<consumed[1], consumed[2]>>

\* the step takes a packet with one of these tags from the iterator
Arrives(tags) ==
    /\ msgRes = NotCalled
    /\ Len(consumed') = Len(consumed) + 1
    /\ consumed'[Len(consumed')].tag \in tags

\* the packet the step has taken
Arrived == consumed'[Len(consumed')]

\* the message of the other slots of the stack is what it was
OthersKept(i) ==
    /\ Len(stack') = Len(stack)
    /\ \A j \in 1..Len(stack) : j # i + 1 => stack'[j] = stack[j]

\* the message of the kind matching the packet
MessageFor(p) == IF p.tag = "LiteralData" THEN Literal(p) ELSE Compressed(p)

\* C11: a LiteralData (CompressedData) packet that arrives when no message is
\* open pushes a Literal (Compressed) message; one that arrives while a Signed
\* message is open becomes the inner message of that Signed message, of the
\* kind matching the packet; one that arrives while an Encrypted message is
\* open makes the composition fail.
C11_DataPacketHandling ==
    [][Arrives({"LiteralData", "CompressedData"}) =>
        IF cur = None
        THEN /\ stack' = Append(stack, MessageFor(Arrived))
             /\ msgRes' = NotCalled
        ELSE IF At(stack, cur.val).kind = "Signed"
        THEN /\ OthersKept(cur.val)
             /\ At(stack', cur.val) =
                   [At(stack, cur.val) EXCEPT !.message = Some(MessageFor(Arrived))]
             /\ msgRes' = NotCalled
        ELSE At(stack, cur.val).kind = "Encrypted" /\ Failed(msgRes')
      ]_vars

\* what the code does with a data packet: as C11 says, but the inner message
\* of a Signed message is a Literal for both tags
DataPacketHandling ==
    [][Arrives({"LiteralData", "CompressedData"}) =>
        IF cur = None
        THEN /\ stack' = Append(stack, MessageFor(Arrived))
             /\ msgRes' = NotCalled
        ELSE IF At(stack, cur.val).kind = "Signed"
        THEN /\ OthersKept(cur.val)
             /\ At(stack', cur.val) =
                   [At(stack, cur.val) EXCEPT !.message = Some(Literal(Arrived))]
             /\ msgRes' = NotCalled
        ELSE At(stack, cur.val).kind = "Encrypted" /\ Failed(msgRes')
      ]_vars

\* an Encrypted message with these esk and edata, whatever its protected flag
IsEncrypted(m, esk, edata) == m.kind = "Encrypted" /\ m.esk = esk /\ m.edata = edata

EncryptedOf(st) ==
    {st[i] : i \in {j \in 1..Len(st) : st[j].kind = "Encrypted"}}
      \cup {st[i].message.val :
               i \in {j \in 1..Len(st) :
                         /\ st[j].kind = "Signed"
                         /\ st[j].message.some
                         /\ st[j].message.val.kind = "Encrypted"}}

AllProtected(edata) ==
    \A i \in 1..Len(edata) : edata[i].tag = "SymEncryptedProtectedData"

\* C13: in every Encrypted message that from_packets returns, top-level or
\* inside a Signed message, protected is true if and only if each packet of
\* edata has tag SymEncryptedProtectedData, also when tag-9 and tag-18 packets
\* are mixed in one message; an Encrypted message without edata has
\* protected = FALSE.
C13_ProtectedAgreesWithEdata ==
    (msgRes # NotCalled /\ msgRes.ret.ok) =>
        \A m \in EncryptedOf(msgRes.ret.val) :
            m.protected = (m.edata # <<>> /\ AllProtected(m.edata))

\* what the code keeps: protected tells the tag of the last edata packet
ProtectedIsLastEdataTag ==
    (msgRes # NotCalled /\ msgRes.ret.ok) =>
        \A m \in EncryptedOf(msgRes.ret.val) :
            m.protected = (m.edata # <<>>
                             /\ m.edata[Len(m.edata)].tag = "SymEncryptedProtectedData")

\* C14: a OnePassSignature packet p that arrives when no message is open, or
\* while a Signed message is open, pushes Signed{one_pass=p} and makes it the
\* open message; a Signature packet p that arrives when no message is open
\* pushes Signed{sig=p} and leaves no message open, and one that arrives while
\* a Signed message is open fills the sig of that message and clears the open
\* marker.
C14_SignatureHandling ==
    [][/\ (Arrives({"OnePassSignature"})
              /\ (cur = None \/ At(stack, cur.val).kind = "Signed")) =>
                /\ stack' = Append(stack, SignedMsg(None, Some(Arrived), None))
                /\ cur' = Some(Len(stack') - 1)
                /\ msgRes' = NotCalled
       /\ Arrives({"Signature"}) =>
           (IF cur = None
            THEN /\ stack' = Append(stack, SignedMsg(None, None, Some(Arrived)))
                 /\ cur' = None
                 /\ msgRes' = NotCalled
            ELSE (At(stack, cur.val).kind = "Signed") =>
                    /\ OthersKept(cur.val)
                    /\ At(stack', cur.val) =
                          [At(stack, cur.val) EXCEPT !.signature = Some(Arrived)]
                    /\ cur' = None
                    /\ msgRes' = NotCalled)
      ]_vars

\* two one-pass packets opened two Signed messages, a Signature packet closed
\* the second one, and the Signature packet after it pushed a third message
C14_Witness ==
    /\ Len(consumed) = 4
    /\ consumed[1].tag = "OnePassSignature" /\ consumed[2].tag = "OnePassSignature"
    /\ consumed[3].tag = "Signature" /\ consumed[4].tag = "Signature"
    /\ msgRes = NotCalled
    /\ cur = None
    /\ stack = <<SignedMsg(None, Some(consumed[1]), None),
                 SignedMsg(None, Some(consumed[2]), Some(consumed[3])),
                 SignedMsg(None, None, Some(consumed[4]))>>

\* the loop runs or has ended with Ok(stack)
NotFailed == msgRes = NotCalled \/ msgRes.ret.ok

\* the open message is the last of the stack and is Signed or Encrypted
OpenIsLastSignedOrEncrypted ==
    cur.some =>
        /\ cur.val = Len(stack) - 1
        /\ cur.val \in 0..(Len(stack) - 1)
        /\ At(stack, cur.val).kind \in {"Signed", "Encrypted"}

\* C28: in Message::from_packets, after every processed packet, cur = Some(i)
\* means that i is the last index of the stack and that stack[i] is a Signed
\* or an Encrypted message; so stack[i] is always within bounds, and the
\* stack.pop() of the encrypted-data arm takes the open message off the stack
\* and what is pushed back takes its place.
C28_OpenMessageIsLastOfStack ==
    /\ [](NotFailed => OpenIsLastSignedOrEncrypted)
    /\ [][(Arrives(EdataTags) /\ cur.some) =>
             /\ stack[Len(stack)] = At(stack, cur.val)
             /\ IF msgRes' = NotCalled
                THEN OthersKept(cur.val)
                       /\ At(stack', cur.val).kind = At(stack, cur.val).kind
                ELSE stack' = SubSeq(stack, 1, cur.val)
             /\ cur' = cur
          ]_vars

\* after a literal, a one-pass signature and encrypted data the Signed message
\* that holds the data is open and is the second and last message of the stack
C28_Witness ==
    /\ msgRes = NotCalled
    /\ Len(consumed) = 3
    /\ consumed[3].tag \in EdataTags
    /\ cur = Some(1)
    /\ Len(stack) = 2
    /\ stack[1].kind = "Literal"
    /\ stack[2].kind = "Signed"
    /\ stack[2].message = Some(Encrypted(<<>>, <<consumed[3]>>,
                                         consumed[3].tag = "SymEncryptedProtectedData"))

\* ---------------------------------------------------------------- message decryption
\* composed/message.rs, Message::decrypt and fn decrypt; packet/types/key.rs, unlock

\* most esk packets in an Encrypted message, most subkeys of a key
MaxEsk == 2
MaxSubkeys == 1

IsPanic(r) == "panic" \in DOMAIN r
IsOk(r) == "ok" \in DOMAIN r /\ r.ok
IsErr(r) == "ok" \in DOMAIN r /\ ~r.ok

\* ---- the key

\* a secret key packet: what its key_id() returns, its algorithm and whether
\* its secret parameters are passphrase protected (is_encrypted)
SecretKeyPacket(id, algorithm, locked) ==
    [key_id |-> id, algorithm |-> algorithm, is_encrypted |-> locked]

\* key_id() is None only for a V2/V3 key that is not RSA
DecPrimaryKeys ==
    {SecretKeyPacket(Some(1), "RSA", FALSE), SecretKeyPacket(Some(1), "RSA", TRUE),
     SecretKeyPacket(Some(1), "DSA", FALSE), SecretKeyPacket(Some(1), "ECDSA", FALSE),
     SecretKeyPacket(Some(1), "EdDSA", FALSE), SecretKeyPacket(None, "DSA", FALSE)}

DecSubkeys ==
    {SecretKeyPacket(Some(2), "RSA", FALSE), SecretKeyPacket(None, "DSA", FALSE)}

DecKeys ==
    {[primary_key |-> pk, subkeys |-> sks] :
        pk \in DecPrimaryKeys, sks \in SeqsUpTo(DecSubkeys, MaxSubkeys)}

\* PrivateKey::from_ciphertext: every arm is unimplemented!
from_ciphertext(k) == Panic("not yet implemented: implement me")

\* PrivateKey::from_plaintext: only the RSA arm is implemented;
\* params_ok: rsa_private_params could parse the secret parameters
from_plaintext(k, params_ok) ==
    IF k.algorithm = "RSA"
    THEN IF params_ok THEN Ok("RSA") ELSE Err("rsa_private_params")
    ELSE Panic("not yet implemented: implement me")

\* PrivateKey::unlock up to the call of work: the PrivateKeyRepr, an error or
\* a panic
unlock(k, params_ok) ==
    IF k.is_encrypted THEN from_ciphertext(k) ELSE from_plaintext(k, params_ok)

\* ---- the message

\* the key ids esk packets name: 1 and 2 are ids of keys above, 3 is nobody's
EskIds == {1, 2, 3}

EskPkt(id) == [tag |-> "PublicKeyEncryptedSessionKey", id |-> id]

LiteralPkt(parse) == [tag |-> "LiteralData", body |-> [parse |-> parse]]

\* body[0] is the compression algorithm, rest is what composing the
\* decompressed body[1..] gives
CompressedPkt(alg, rest) ==
    [tag |-> "CompressedData", body |-> [alg |-> alg, rest |-> rest]]

\* an encrypted-data packet: body[0], and what decrypting and composing
\* body[1..] gives
EdataPkt(version, plain) ==
    [tag |-> "SymEncryptedData", body |-> [version |-> version, plain |-> plain]]

Lit == Literal(LiteralPkt(Ok("hello")))
BadLit == Literal(LiteralPkt(Err("literal::parser")))
SigPkt == [tag |-> "Signature"]
SignedLit == SignedMsg(Some(Lit), None, Some(SigPkt))
SignedNothing == SignedMsg(None, None, Some(SigPkt))
NestedEnc == Encrypted(<<>>, <<>>, FALSE)
Zip == Compressed(CompressedPkt("ZIP", Ok(<<Lit>>)))
ZlibBroken == Compressed(CompressedPkt("ZLIB", Err("from_bytes_many")))
UncompressedEnc == Compressed(CompressedPkt("Uncompressed", Ok(<<NestedEnc>>)))
UnknownCompression == Compressed(CompressedPkt("invalid", Err("from_bytes_many")))
BZip2 == Compressed(CompressedPkt("BZip2", Ok(<<Lit>>)))

\* what decrypting one encrypted-data packet and composing the plaintext gives
Plaintexts ==
    {Err("decrypt"), Ok(<<>>), Ok(<<Lit>>), Ok(<<BadLit>>), Ok(<<SignedLit>>),
     Ok(<<SignedNothing>>), Ok(<<Zip>>), Ok(<<ZlibBroken>>), Ok(<<UncompressedEnc>>),
     Ok(<<UnknownCompression>>), Ok(<<BZip2>>), Ok(<<NestedEnc>>),
     Ok(<<ZlibBroken, BZip2>>), Ok(<<BZip2, ZlibBroken>>), Ok(<<Lit, NestedEnc>>)}

GoodEdata == EdataPkt(1, Ok(<<Lit>>))

EdataPkts ==
    {EdataPkt(2, Ok(<<Lit>>))} \cup {EdataPkt(1, plain) : plain \in Plaintexts}

\* no packet, one packet, or one packet before or after a good one
EdataLists ==
    {<<>>} \cup {<<e>> : e \in EdataPkts}
      \cup {<<GoodEdata, e>> : e \in EdataPkts} \cup {<<e, GoodEdata>> : e \in EdataPkts}

DecMessages ==
    {Encrypted(esk, edata, FALSE) :
        esk \in SeqsUpTo({EskPkt(id) : id \in EskIds}, MaxEsk), edata \in EdataLists}
      \cup {Lit, Zip, SignedNothing, SignedLit,
            SignedMsg(Some(Encrypted(<<EskPkt(1)>>, <<GoodEdata>>, FALSE)), None, Some(SigPkt))}

\* ---- what the crypto functions outside this file do with the session key
\* of the chosen esk packet: rsa_private_params fails; decrypt_rsa fails; the
\* first byte of the session key is no algorithm; its checksum is wrong; all
\* is well
CryptoOutcomes == {"params", "decrypt_rsa", "algorithm", "checksum", "good"}

\* ---- fn decrypt

RECURSIVE is_literal(_)
is_literal(msg) ==
    CASE msg.kind = "Literal" -> TRUE
      [] msg.kind = "Signed" -> IF msg.message.some THEN is_literal(msg.message.val) ELSE FALSE
      [] OTHER -> FALSE

RECURSIVE get_literal(_)
get_literal(msg) ==
    CASE msg.kind = "Literal" -> Some(msg)
      [] msg.kind = "Signed" -> IF msg.message.some THEN get_literal(msg.message.val) ELSE None
      [] OTHER -> None

\* the closure mapped over the messages of one plaintext
Decompress(msg) ==
    CASE msg.kind = "Compressed" ->
           (CASE msg.packet.body.alg \in {"Uncompressed", "ZIP", "ZLIB"} -> msg.packet.body.rest
              [] msg.packet.body.alg = "BZip2" -> Panic("not yet implemented: BZip2")
              [] OTHER -> Err("invalid compression algorithm"))
      [] msg.kind = "Encrypted" ->
           Panic("not yet implemented: nested encryption is not supported")
      [] OTHER -> Ok(<<msg>>)

\* .map(..).collect::<Result<Vec<Vec<Message>>>>()?.into_iter().flatten():
\* the closure runs on one message after the other until one gives an error
RECURSIVE MapCollect(_)
MapCollect(msgs) ==
    IF msgs = <<>> THEN Ok(<<>>)
    ELSE LET r == Decompress(Head(msgs))
         IN  IF ~IsOk(r) THEN r
             ELSE LET rest == MapCollect(Tail(msgs))
                  IN  IF IsOk(rest) THEN Ok(r.val \o rest.val) ELSE rest

\* for packet in edata { ... messages.extend(msgs) }
RECURSIVE EdataLoop(_)
EdataLoop(edata) ==
    IF edata = <<>> THEN Ok(<<>>)
    ELSE LET packet == Head(edata)
         IN  IF packet.body.version # 1 THEN Err("invalid packet version")
             ELSE IF ~packet.body.plain.ok THEN packet.body.plain
             ELSE LET msgs == MapCollect(packet.body.plain.val)
                  IN  IF ~IsOk(msgs) THEN msgs
                      ELSE LET rest == EdataLoop(Tail(edata))
                           IN  IF IsOk(rest) THEN Ok(msgs.val \o rest.val) ELSE rest

\* messages.iter().find(|msg| msg.is_literal())
RECURSIVE FindLiteral(_)
FindLiteral(messages) ==
    IF messages = <<>> THEN None
    ELSE IF is_literal(Head(messages)) THEN Some(Head(messages))
    ELSE FindLiteral(Tail(messages))

\* fn decrypt(priv_key, mpis, edata, protected, fingerprint)
decrypt(priv_key, edata, crypto) ==
    CASE priv_key \in {"DSA", "ECDSA", "EdDSA"} -> Err("Unimplemented")
      [] crypto = "decrypt_rsa" -> Err("decrypt_rsa")
      [] crypto = "algorithm" -> Err("invalid symmetric key algorithm")
      [] crypto = "checksum" -> Err("checksum")
      [] OTHER ->
           LET messages == EdataLoop(edata)
           IN  IF ~IsOk(messages) THEN messages
               ELSE LET literal == FindLiteral(messages.val)
                    IN  IF ~literal.some THEN Err("missing literal message")
                        ELSE get_literal(literal.val).val.packet.body.parse

\* ---- Message::decrypt

\* how a call ended: what came back (or the panic), the index of the esk
\* packet chosen (0: none), and the keys unlock was called on, in order (0:
\* the primary key, j: the j-th subkey)
Ended(ret, selected, unlocked) == [ret |-> ret, selected |-> selected, unlocked |-> unlocked]

\* key.subkeys.iter().find_map(..): the index of the first subkey whose key id
\* is id, 0 if there is none
RECURSIVE FindSubkey(_, _, _)
FindSubkey(subkeys, id, j) ==
    IF j > Len(subkeys) THEN 0
    ELSE IF subkeys[j].key_id.some /\ subkeys[j].key_id.val = id THEN j
    ELSE FindSubkey(subkeys, id, j + 1)

\* for esk_packet in esk { ... }, from the i-th packet on: the error of the ?
\* in the loop, or the index of the chosen packet (0: none) and of the
\* matching subkey (0: the primary key matched, or nothing did)
RECURSIVE FindEsk(_, _, _)
FindEsk(key, esk, i) ==
    IF i > Len(esk) THEN Ok([packet |-> 0, subkey |-> 0])
    ELSE IF ~key.primary_key.key_id.some THEN Err("missing key_id")
    ELSE IF key.primary_key.key_id.val = esk[i].id THEN Ok([packet |-> i, subkey |-> 0])
    ELSE LET j == FindSubkey(key.subkeys, esk[i].id, 1)
         IN  IF j # 0 THEN Ok([packet |-> i, subkey |-> j])
             ELSE FindEsk(key, esk, i + 1)

\* encoding_key.unlock(key_pw, |priv_key| { res = decrypt(..)?; Ok(()) })?; Ok(res)
UnlockAndDecrypt(k, edata, crypto) ==
    LET repr == unlock(k, crypto # "params")
    IN  IF IsOk(repr) THEN decrypt(repr.val, edata, crypto) ELSE repr

RECURSIVE MessageDecrypt(_, _, _)
MessageDecrypt(msg, key, crypto) ==
    CASE msg.kind = "Compressed" -> Ended(Ok(msg.packet.body), 0, <<>>)
      [] msg.kind = "Literal" -> Ended(Ok(msg.packet.body), 0, <<>>)
      [] msg.kind = "Signed" ->
           IF msg.message.some THEN MessageDecrypt(msg.message.val, key, crypto)
           ELSE Ended(Ok(<<>>), 0, <<>>)
      [] msg.kind = "Encrypted" ->
           LET found == FindEsk(key, msg.esk, 1)
           IN  IF ~found.ok THEN Ended(found, 0, <<>>)
               ELSE IF found.val.packet = 0 THEN Ended(Err("MissingKey"), 0, <<>>)
               ELSE IF found.val.subkey = 0
               THEN Ended(UnlockAndDecrypt(key.primary_key, msg.edata, crypto),
                          found.val.packet, <<0>>)
               ELSE Ended(UnlockAndDecrypt(key.subkeys[found.val.subkey], msg.edata, crypto),
                          found.val.packet, <<found.val.subkey>>)

\* ---- actions

\* a composed private key has been read
DecKeyNew(key) ==
    /\ decKey = NoKey
    /\ decKey' = key
    /\ UNCHANGED <<decMessage, decryptRes, notDec>>

\* a message has been composed
DecMessageNew(msg) ==
    /\ decMessage = NoMessage
    /\ decMessage' = msg
    /\ UNCHANGED <<decKey, decryptRes, notDec>>

\* message.decrypt(msg_pw, key_pw, &key)
CallDecrypt(crypto) ==
    /\ decKey # NoKey /\ decMessage # NoMessage
    /\ decryptRes = NotCalled
    /\ decryptRes' = Returned(MessageDecrypt(decMessage, decKey, crypto))
    /\ UNCHANGED <<decKey, decMessage, notDec>>

InitDecrypt == Idle

NextDecrypt ==
    \/ decKey = NoKey /\ \E key \in DecKeys : DecKeyNew(key)
    \/ decMessage = NoMessage /\ \E msg \in DecMessages : DecMessageNew(msg)
    \/ \E crypto \in CryptoOutcomes : CallDecrypt(crypto)

SpecDecrypt == InitDecrypt /\ [][NextDecrypt]_vars

\* ---------------------------------------------------------------- claims on decryption

\* the key id is the id of the primary key or of a subkey
IdMatches(key, id) ==
    \/ key.primary_key.key_id = Some(id)
    \/ \E j \in 1..Len(key.subkeys) : key.subkeys[j].key_id = Some(id)

\* the indexes of the esk packets whose key id is one of the key's
Matching(key, esk) == {i \in 1..Len(esk) : IdMatches(key, esk[i].id)}

\* C5: decrypt on an Encrypted message fails with MissingKey if and only if
\* no esk packet's key id is the id of the primary key or of a subkey;
\* otherwise it selects the first esk packet that matches, and it unlocks no
\* key before it has found a match.
C5_MissingKeyIffNoMatch ==
    (decryptRes # NotCalled /\ decMessage.kind = "Encrypted") =>
        LET m == Matching(decKey, decMessage.esk)
            r == decryptRes.ret
        IN  /\ (r.ret = Err("MissingKey")) <=> (m = {})
            /\ m # {} => r.selected = Min(m)
            /\ r.unlocked # <<>> => r.selected # 0

\* the decrypted plaintext of some encrypted-data packet holds a BZip2
\* compressed message or an Encrypted message
RECURSIVE HoldsUnsupported(_)
HoldsUnsupported(edata) ==
    /\ edata # <<>>
    /\ \/ /\ Head(edata).body.plain.ok
          /\ \E i \in 1..Len(Head(edata).body.plain.val) :
                \/ Head(edata).body.plain.val[i] = BZip2
                \/ Head(edata).body.plain.val[i].kind = "Encrypted"
       \/ HoldsUnsupported(Tail(edata))

\* the key unlock was called on
Unlocked(r) ==
    IF r.unlocked[1] = 0 THEN decKey.primary_key
    ELSE decKey.subkeys[r.unlocked[1]]

\* C6: decrypt always ends in a returned value, never in a panic; when the
\* plaintext holds a BZip2 compressed or a nested Encrypted message, or when
\* the unlocking key is DSA, ECDSA or EdDSA, what it returns is an Err.
C6_DecryptAlwaysReturns ==
    (decryptRes # NotCalled /\ decMessage.kind = "Encrypted") =>
        LET r == decryptRes.ret
        IN  /\ ~IsPanic(r.ret)
            /\ (r.unlocked # <<>>
                  /\ (\/ HoldsUnsupported(decMessage.edata)
                      \/ Unlocked(r).algorithm \in {"DSA", "ECDSA", "EdDSA"}))
                 => IsErr(r.ret)

\* what decrypt does on an Encrypted message, case by case: with an empty esk
\* list or a primary key that has a key id, MissingKey comes back exactly when
\* no esk packet matches, and otherwise the first matching esk packet is
\* chosen and only the key it names is unlocked; with esk packets and a
\* primary key without key id the call fails with "missing key_id"
DecryptKeySelection ==
    (decryptRes # NotCalled /\ decMessage.kind = "Encrypted") =>
        LET m == Matching(decKey, decMessage.esk)
            r == decryptRes.ret
        IN  IF decKey.primary_key.key_id.some \/ decMessage.esk = <<>>
            THEN /\ (r.ret = Err("MissingKey")) <=> (m = {})
                 /\ m # {} => r.selected = Min(m)
                 /\ m = {} => r.unlocked = <<>>
                 /\ r.unlocked # <<>> =>
                       /\ Len(r.unlocked) = 1
                       /\ Unlocked(r).key_id = Some(decMessage.esk[r.selected].id)
            ELSE r.ret = Err("missing key_id") /\ r.unlocked = <<>>

\* a call that reaches unlock ends in an error or a panic, never in plaintext,
\* when the plaintext holds a BZip2 compressed or an Encrypted message or when
\* the key is DSA, ECDSA or EdDSA
UnsupportedGivesNoPlaintext ==
    (decryptRes # NotCalled /\ decMessage.kind = "Encrypted") =>
        LET r == decryptRes.ret
        IN  (r.unlocked # <<>>
               /\ (\/ HoldsUnsupported(decMessage.edata)
                   \/ Unlocked(r).algorithm \in {"DSA", "ECDSA", "EdDSA"}))
              => ~IsOk(r.ret)

\* ---------------------------------------------------------------- ASCII armor
\* armor.rs: the parsers, read_checksum, Dearmor::read, parse;
\* composed/shared.rs: from_armor_many
\*
\* The armored text is a sequence of tokens: a Radix-64 character with its
\* 6-bit value, a line ending, a '=', a whole '-----BEGIN <type>-----' line, a
\* whole '-----END <type>-----' line without its line ending, a whole
\* 'Key: Value' line.

\* most Radix-64 characters in the body of an armor
MaxBody == 3

B64(v) == [c |-> "b64", v |-> v]
NL == [c |-> "nl", v |-> 0]
EQ == [c |-> "eq", v |-> 0]
BeginLine(t) == [c |-> "begin", v |-> t]
EndLine(t) == [c |-> "end", v |-> t]
KeyValueLine(n) == [c |-> "kv", v |-> n]

\* BlockType by number: the PGP types from_armor_many composes, and the others
PublicKeyBlock == 1
MessageBlock == 2
PublicKeyPKCS1Block == 3
PgpBlockTypes == {PublicKeyBlock, MessageBlock}

\* ---- Radix-64 and CRC-24, as the base64 and crc24 crates compute them

\* exclusive or of the low n bits of a and b, by halves
RECURSIVE XorBits(_, _, _)
XorBits(a, b, n) ==
    IF n = 1 THEN (a + b) % 2
    ELSE LET h == n \div 2
         IN  XorBits(a % (2 ^ h), b % (2 ^ h), h)
               + ((2 ^ h) * XorBits(a \div (2 ^ h), b \div (2 ^ h), n - h))

\* exclusive or of two numbers below 2^25 (the register shifted left once)
Xor(a, b) == XorBits(a, b, 25)

\* n times: shift the 24-bit register left, reduce by the generator 0x1864CFB
RECURSIVE Crc24Shift(_, _)
Crc24Shift(crc, n) ==
    IF n = 0 THEN crc
    ELSE With(crc * 2, LAMBDA shifted :
             Crc24Shift(IF shifted >= 16777216 THEN Xor(shifted, 25578747) ELSE shifted,
                        n - 1))

\* the register after the eight shifts of one byte, for every value of its
\* top byte
CrcTable == [i \in 1..256 |-> Crc24Shift((i - 1) * 65536, 8)] \o <<>>

\* byte by byte: the top byte of the register, xored with the next byte of
\* the data, is shifted out
RECURSIVE Crc24Update(_, _)
Crc24Update(crc, bytes) ==
    With(<<crc, bytes>>, LAMBDA p :
        IF p[2] = <<>> THEN p[1]
        ELSE Crc24Update(Xor((p[1] % 65536) * 256,
                             CrcTable[Xor(p[1] \div 65536, Head(p[2])) + 1]),
                         Tail(p[2])))

\* crc24::hash_raw: CRC-24 with the initial value 0xB704CE
crc24_hash_raw(bytes) == Crc24Update(11994318, bytes)

\* the values of full and partial quanta of Radix-64 characters, as bytes
RECURSIVE DecodeQuanta(_)
DecodeQuanta(vs) ==
    IF Len(vs) < 2 THEN <<>>
    ELSE LET b1 == (vs[1] * 4) + (vs[2] \div 16)
         IN  IF Len(vs) = 2 THEN <<b1>>
             ELSE LET b2 == ((vs[2] % 16) * 16) + (vs[3] \div 4)
                  IN  IF Len(vs) = 3 THEN <<b1, b2>>
                      ELSE <<b1, b2, ((vs[3] % 4) * 64) + vs[4]>>
                             \o DecodeQuanta(SubSeq(vs, 5, Len(vs)))

SelectClass(toks, classes) == SelectSeq(toks, LAMBDA t : t.c \in classes)

\* base64::decode_config(input, base64::MIME): line endings are skipped,
\* padding ends the text, any other byte and a length of 4n+1 are errors
base64_decode(toks) ==
    LET text == SelectSeq(toks, LAMBDA t : t.c # "nl")
        chars == SelectClass(text, {"b64"})
    IN  IF \E i \in 1..Len(text) : text[i].c \notin {"b64", "eq"}
        THEN Err("InvalidByte")
        ELSE IF \E i \in 1..Len(text) : \E j \in (i + 1)..Len(text) :
                    text[i].c = "eq" /\ text[j].c = "b64"
        THEN Err("InvalidByte")
        ELSE IF Len(chars) % 4 = 1 THEN Err("InvalidLength")
        ELSE Ok(DecodeQuanta([i \in 1..Len(chars) |-> chars[i].v]))

\* the four Radix-64 characters of a 24-bit value
Encode24(x) ==
    <<B64(x \div 262144), B64((x \div 4096) % 64), B64((x \div 64) % 64), B64(x % 64)>>

\* a reading of the checksum with its three bytes in the reverse order
ReadChecksumReversed(raw) ==
    With(base64_decode(raw), LAMBDA checksum :
        IF ~checksum.ok THEN Err("InvalidData")
        ELSE LET buf == [i \in 0..3 |->
                            IF i >= 1 /\ i <= Len(checksum.val) THEN checksum.val[i] ELSE 0]
             IN  Ok((buf[3] * 65536) + (buf[2] * 256) + buf[1]))

\* fn read_checksum: the decoded bytes go to buf[1..], read as a big-endian u32
read_checksum(raw) ==
    With(base64_decode(raw), LAMBDA checksum :
        IF ~checksum.ok THEN Err("InvalidData")
        ELSE LET buf == [i \in 0..3 |->
                            IF i >= 1 /\ i <= Len(checksum.val) THEN checksum.val[i] ELSE 0]
             IN  Ok((buf[0] * 16777216) + (buf[1] * 65536) + (buf[2] * 256) + buf[3]))

\* ---- the parsers; each gives ParsedOk with the number of tokens it used, or
\* Incomplete (the data may go on), or ParseError

ParsedOk(used, val) == [k |-> "ok", used |-> used, val |-> val]
Incomplete == [k |-> "incomplete"]
ParseError == [k |-> "error"]

\* the number of tokens of class c at the front of data[p..]
RECURSIVE Run(_, _, _)
Run(data, p, c) ==
    IF p > Len(data) \/ data[p].c # c THEN 0 ELSE 1 + Run(data, p + 1, c)

\* the position of the first '-----' in data, 0 if there is none
RECURSIVE FirstSep(_, _)
FirstSep(data, p) ==
    IF p > Len(data) THEN 0
    ELSE IF data[p].c \in {"begin", "end"} THEN p
    ELSE FirstSep(data, p + 1)

\* header_parser: take_until!("-----"), armor_header_line, the key-value
\* lines, many0!(line_ending)
header_parser(data) ==
    LET p == FirstSep(data, 1)
    IN  IF p = 0 THEN Incomplete
        ELSE IF data[p].c # "begin" THEN ParseError
        ELSE LET kvs == Run(data, p + 1, "kv")
                 nls == Run(data, p + 1 + kvs, "nl")
             IN  IF p + kvs + nls >= Len(data) THEN Incomplete
                 ELSE ParsedOk(p + kvs + nls,
                               [typ |-> data[p].v,
                                headers |-> [i \in 1..kvs |-> data[p + i].v]])

\* util::base64_token: the Radix-64 characters and line endings at the front
\* of the data
body_parser(data) ==
    IF data = <<>> THEN Incomplete
    ELSE IF data[1].c \notin {"b64", "nl"} THEN ParseError
    ELSE LET n == CHOOSE n \in 1..Len(data) :
                     /\ \A i \in 1..n : data[i].c \in {"b64", "nl"}
                     /\ n = Len(data) \/ data[n + 1].c \notin {"b64", "nl"}
         IN  ParsedOk(n, SubSeq(data, 1, n))

\* opt!(pair!(many_m_n!(1, 3, tag!("=")), line_ending)): the position after
\* the padding line, p itself if there is none, 0 if the data ends too early
AfterPadding(data, p) ==
    LET eqs == Run(data, p, "eq")
        e == IF eqs > 3 THEN 3 ELSE eqs
    IN  IF e < 3 /\ p + e > Len(data) THEN 0
        ELSE IF e = 0 THEN p
        ELSE IF p + e > Len(data) THEN 0
        ELSE IF data[p + e].c = "nl" THEN p + e + 1
        ELSE p

\* footer_parser
footer_parser(data) ==
    LET p1 == AfterPadding(data, 1)
    IN  IF p1 = 0 \/ p1 > Len(data) THEN Incomplete
        ELSE LET p2 == IF data[p1].c = "nl" THEN p1 + 1 ELSE p1
             IN  IF p2 > Len(data) THEN Incomplete
                 ELSE IF data[p2].c = "eq" /\ p2 + 4 > Len(data) THEN Incomplete
                 ELSE LET crc == IF data[p2].c = "eq"
                                 THEN Some(SubSeq(data, p2 + 1, p2 + 4)) ELSE None
                          p3 == IF crc.some THEN p2 + 5 ELSE p2
                          p4 == p3 + Run(data, p3, "nl")
                      IN  IF p4 > Len(data) THEN Incomplete
                          ELSE IF data[p4].c # "end" THEN ParseError
                          ELSE IF p4 = Len(data)
                          THEN ParsedOk(p4, [crc |-> crc, typ |-> data[p4].v])
                          ELSE IF data[p4 + 1].c = "nl"
                          THEN ParsedOk(p4 + 1, [crc |-> crc, typ |-> data[p4].v])
                          ELSE ParseError

\* ---- Dearmor

\* Buffer::with_capacity(32 * 1024) and let max_capacity
InitialCapacity == 32 * 1024
max_capacity == 1024 * 1024 * 1024

\* nom::Needed
NeededUnknown == [size |-> FALSE, sz |-> 0]
NeededSize(sz) == [size |-> TRUE, sz |-> sz]

\* if let Some(Needed::Size(sz)) = needed { .. self.capacity *= 2; .. }
Grow(d, needed) ==
    IF needed.some /\ needed.val.size /\ needed.val.sz > d.capacity
         /\ d.capacity * 2 < max_capacity
    THEN [d EXCEPT !.capacity = @ * 2]
    ELSE d

\* Dearmor::new: inner is what the source has not handed over yet, buffer the
\* data read from it and not yet consumed
DearmorNew(input) ==
    [typ |-> None, headers |-> <<>>, checksum |-> None,
     current_part |-> "Header", buffer |-> <<>>, inner |-> input,
     capacity |-> InitialCapacity]

\* self.inner.read(b.space()); b.fill(sz): the texts of the model are far
\* shorter than the buffer (32 KiB), the source hands over all it has
Fill(d) == [d EXCEPT !.buffer = d.buffer \o d.inner, !.inner = <<>>]

Consume(d, l) == [d EXCEPT !.buffer = SubSeq(d.buffer, l + 1, Len(d.buffer))]

\* into[0..bytes.len()].copy_from_slice(bytes)
CopyToFront(into, bytes) ==
    [i \in 1..Len(into) |-> IF i <= Len(bytes) THEN bytes[i] ELSE into[i]]

\* how the labelled loop was left: by break 'outer after "incomplete", because
\* into is "full", or by return Err(how)
LoopExit(d, read, into, how) ==
    [d |-> d, read |-> read, into |-> into,
     how |-> IF how \in {"incomplete", "full"} THEN how ELSE "return",
     err |-> IF how \in {"incomplete", "full"} THEN "" ELSE how]

\* one pass of 'outer, on a Dearmor d with the data of the last parse result r
InnerStep(d, read, into, r) ==
    CASE d.current_part = "Header" ->
           CASE r.k = "ok" ->
                  [go |-> TRUE, read |-> read, into |-> into,
                   d |-> Consume([d EXCEPT !.typ = Some(r.val.typ),
                                           !.headers = r.val.headers,
                                           !.current_part = "Body"], r.used)]
             [] r.k = "incomplete" -> LoopExit(d, read, into, "incomplete")
             [] OTHER -> LoopExit(d, read, into, "header parsing failure")
      [] d.current_part = "Body" ->
           CASE r.k = "ok" ->
                  [go |-> TRUE, read |-> read + r.used, into |-> CopyToFront(into, r.val),
                   d |-> Consume(d, r.used)]
             [] r.k = "incomplete" -> LoopExit(d, read, into, "incomplete")
             [] OTHER ->
                  [go |-> TRUE, read |-> read, into |-> into,
                   d |-> [d EXCEPT !.current_part = "Footer"]]
      [] OTHER ->
           CASE r.k = "ok" ->
                  IF d.typ.some /\ d.typ.val # r.val.typ
                  THEN LoopExit(d, read, into, "missmatch in armor ascii footer")
                  ELSE IF r.val.crc.some
                  THEN With(read_checksum(r.val.crc.val), LAMBDA sum :
                           IF ~sum.ok THEN LoopExit(d, read, into, sum.err)
                           ELSE [go |-> TRUE, read |-> read, into |-> into,
                                 d |-> Consume([d EXCEPT !.checksum = Some(sum.val)],
                                               r.used)])
                  ELSE [go |-> TRUE, read |-> read, into |-> into, d |-> Consume(d, r.used)]
             [] r.k = "incomplete" -> LoopExit(d, read, into, "incomplete")
             [] OTHER -> LoopExit(d, read, into, "footer parsing failure")

\* PartParser with a footer that is taken to name the type of the header, as
\* if header_typ != &footer_typ were never true
PartParserFooterNamesHeader(d, into) ==
    CASE d.current_part = "Header" -> header_parser(d.buffer)
      [] d.current_part = "Body" ->
           body_parser(IF Len(into) > Len(d.buffer) THEN d.buffer
                       ELSE SubSeq(d.buffer, 1, Len(into)))
      [] OTHER ->
           With(footer_parser(d.buffer), LAMBDA r :
               IF r.k = "ok" /\ d.typ.some THEN [r EXCEPT !.val.typ = d.typ.val]
               ELSE r)

\* the parser of the current part, on the data it is given
PartParser(d, into) ==
    CASE d.current_part = "Header" -> header_parser(d.buffer)
      [] d.current_part = "Body" ->
           body_parser(IF Len(into) > Len(d.buffer) THEN d.buffer
                       ELSE SubSeq(d.buffer, 1, Len(into)))
      [] OTHER -> footer_parser(d.buffer)

\* 'outer: while read < into_len { .. }; needed is the local of that name,
\* which is None when the loop is entered and set only where the loop is left
RECURSIVE InnerLoop(_, _, _, _)
InnerLoop(d, read, into, needed) ==
    With(<<d, read, into>>, LAMBDA p :
        IF p[2] >= Len(p[3]) THEN LoopExit(p[1], p[2], p[3], "full")
        ELSE With(InnerStep(p[1], p[2], p[3], PartParser(p[1], p[3])), LAMBDA s :
                 IF "go" \notin DOMAIN s THEN s
                 ELSE IF s.read = Len(s.into) THEN LoopExit(s.d, s.read, s.into, "full")
                 ELSE InnerLoop(Grow(s.d, needed), s.read, s.into, needed)))

\* what a call of read leaves behind: the Dearmor, the caller's buffer, and
\* Ok(n), Err(..) or Hang when the call never returns
ReadResult(d, into, ret) == [d |-> d, into |-> into, ret |-> ret]
Hang == [hang |-> TRUE]

\* while read < into_len { read from the source; stop at its end; 'outer }
RECURSIVE OuterLoop(_, _, _)
OuterLoop(d, read, into) ==
    With(<<d, read, into, Fill(d)>>, LAMBDA p :
        IF p[2] >= Len(p[3]) THEN ReadResult(p[1], p[3], Ok(p[2]))
        ELSE IF p[4].buffer = <<>> THEN ReadResult(p[4], p[3], Ok(p[2]))
        ELSE With(InnerLoop(p[4], p[2], p[3], None), LAMBDA x :
                 CASE x.how = "full" -> ReadResult(x.d, x.into, Ok(x.read))
                   [] x.how = "incomplete" ->
                        IF p[1].inner = <<>> /\ x.d = p[4] /\ x.read = p[2]
                        THEN ReadResult(x.d, x.into, Hang)
                        ELSE OuterLoop(x.d, x.read, x.into)
                   [] OTHER -> ReadResult(x.d, x.into, Err(x.err))))

\* Dearmor::read(&mut self, into)
DearmorRead(d, into) == OuterLoop(d, 0, into)

\* a caller's buffer of length k
Zeroed(k) == [i \in 1..k |-> [c |-> "zero", v |-> 0]]

\* Read::read_to_end, and the loop of packet::parser: read into a buffer of
\* length k until read returns 0; the bytes read so far are acc
RECURSIVE ReadAll(_, _, _)
ReadAll(d, k, acc) ==
    With(<<DearmorRead(d, Zeroed(k)), acc>>, LAMBDA p :
        IF ~IsOk(p[1].ret) THEN [d |-> p[1].d, ret |-> p[1].ret]
        ELSE IF p[1].ret.val = 0 THEN [d |-> p[1].d, ret |-> Ok(p[2])]
        ELSE ReadAll(p[1].d, k, p[2] \o SubSeq(p[1].into, 1, p[1].ret.val)))

\* the checks of parse on the Dearmor after read_to_end and the decoded bytes
ParseChecks(dearmor, decoded) ==
    IF ~decoded.ok THEN decoded
    ELSE IF dearmor.checksum.some /\ dearmor.checksum.val # crc24_hash_raw(decoded.val)
    THEN Err("InvalidChecksum")
    ELSE IF ~dearmor.typ.some THEN Panic("called Option::unwrap() on a None value")
    ELSE Ok([typ |-> dearmor.typ.val, headers |-> dearmor.headers,
             decoded |-> decoded.val])

\* armor::parse
parse(input, k) ==
    With(ReadAll(DearmorNew(input), k, <<>>), LAMBDA all :
        IF ~IsOk(all.ret) THEN all.ret
        ELSE With(base64_decode(all.ret.val), LAMBDA decoded : ParseChecks(all.d, decoded)))

\* Dearmor::read_header: read from the source and parse the armor header
read_header(d) ==
    With(Fill(d), LAMBDA filled :
        With(header_parser(filled.buffer), LAMBDA r :
            CASE r.k = "ok" ->
                   [d |-> Consume([filled EXCEPT !.typ = Some(r.val.typ),
                                                 !.headers = r.val.headers,
                                                 !.current_part = "Body"], r.used),
                    ret |-> Ok("unit")]
              [] OTHER -> [d |-> filled, ret |-> Err("header parsing failure")]))

\* Deserializable::from_bytes_many over the Dearmor: packet::parser reads it
\* to its end, from_packets composes; composes: the bytes make a composition
from_bytes_many_dearmor(d, k, composes) ==
    With(ReadAll(d, k, <<>>), LAMBDA all :
        IF ~IsOk(all.ret) THEN all.ret
        ELSE IF composes THEN Ok(<<[composed_of |-> all.ret.val]>>)
        ELSE Err("InvalidPacketContent"))

\* Deserializable::from_armor_many
from_armor_many(input, k, composes) ==
    With(read_header(DearmorNew(input)), LAMBDA h :
        IF ~h.ret.ok THEN h.ret
        ELSE IF ~h.d.typ.some THEN Err("dearmor failed to retrieve armor type")
        ELSE IF h.d.typ.val \in PgpBlockTypes
        THEN from_bytes_many_dearmor(h.d, k, composes)
        ELSE Err("Unimplemented"))

\* ---- armored texts

PayloadBytes == {1, 254}
IntoLens == {2, 32}
Trailers == {<<>>, <<NL>>, <<NL, NL>>}

\* the armors of the model: BEGIN and END lines with their types, nkv header
\* lines, the payload in Radix-64 with or without padding, no CRC line, the
\* payload's CRC-24 or another value, and what follows the END line
Payloads == UNION {[1..n -> PayloadBytes] : n \in 0..MaxBody}

ArmorInputs ==
    [typ : {PublicKeyBlock, MessageBlock, PublicKeyPKCS1Block},
     endTyp : PgpBlockTypes,
     nkv : {0, 1}, payload : Payloads, padded : BOOLEAN,
     crc : {"none", "good", "bad"}, tail : Trailers]

\* the Radix-64 characters of the bytes, without padding
RECURSIVE Base64Chars(_)
Base64Chars(bytes) ==
    IF bytes = <<>> THEN <<>>
    ELSE LET c1 == B64(bytes[1] \div 4)
         IN  IF Len(bytes) = 1 THEN <<c1, B64((bytes[1] % 4) * 16)>>
             ELSE LET c2 == B64(((bytes[1] % 4) * 16) + (bytes[2] \div 16))
                  IN  IF Len(bytes) = 2 THEN <<c1, c2, B64((bytes[2] % 16) * 4)>>
                      ELSE <<c1, c2, B64(((bytes[2] % 16) * 4) + (bytes[3] \div 64)),
                             B64(bytes[3] % 64)>>
                             \o Base64Chars(SubSeq(bytes, 4, Len(bytes)))

Padding(bytes) ==
    IF Len(bytes) % 3 = 1 THEN <<EQ, EQ>>
    ELSE IF Len(bytes) % 3 = 2 THEN <<EQ>> ELSE <<>>

CrcLine(a) ==
    LET sum == crc24_hash_raw(a.payload)
    IN  CASE a.crc = "none" -> <<>>
          [] a.crc = "good" -> <<EQ>> \o Encode24(sum) \o <<NL>>
          [] OTHER -> <<EQ>> \o Encode24((sum + 1) % 16777216) \o <<NL>>

ArmorText(a) ==
    <<BeginLine(a.typ)>> \o [i \in 1..a.nkv |-> KeyValueLine(i)] \o <<NL>>
      \o Base64Chars(a.payload) \o (IF a.padded THEN Padding(a.payload) ELSE <<>>)
      \o (IF a.payload = <<>> THEN <<>> ELSE <<NL>>)
      \o CrcLine(a) \o <<EndLine(a.endTyp)>> \o a.tail

\* the longest armored text of the model, in tokens
MaxText == (4 * ((MaxBody + 2) \div 3)) + 12

\* ---- the calls

\* the armor a as the program gets it: its text, with what it was made of
Armored(a) ==
    [typ |-> a.typ, endTyp |-> a.endTyp, nkv |-> a.nkv, payload |-> a.payload,
     padded |-> a.padded, crc |-> a.crc, tail |-> a.tail, text |-> ArmorText(a)]

ArmorNew(a) ==
    /\ armorInput = NoInput
    /\ armorInput' = Armored(a)
    /\ UNCHANGED <<armorRes, notArmor>>

CallParse(k) ==
    /\ armorInput # NoInput
    /\ armorRes = NotCalled
    /\ armorRes' = [called |-> TRUE, fn |-> "parse", k |-> k,
                    ret |-> parse(armorInput.text, k)]
    /\ UNCHANGED <<armorInput, notArmor>>

\* Read::read_to_end on a new Dearmor over the text, with what the Dearmor
\* holds when the reading has ended
CallReadToEnd(k) ==
    /\ armorInput # NoInput
    /\ armorRes = NotCalled
    /\ \E all \in {ReadAll(DearmorNew(armorInput.text), k, <<>>)} :
          armorRes' = [called |-> TRUE, fn |-> "read_to_end", k |-> k,
                       ret |-> all.ret, typ |-> all.d.typ,
                       checksum |-> all.d.checksum]
    /\ UNCHANGED <<armorInput, notArmor>>

CallFromArmorMany(k, composes) ==
    /\ armorInput # NoInput
    /\ armorRes = NotCalled
    /\ armorRes' = [called |-> TRUE, fn |-> "from_armor_many", k |-> k,
                    ret |-> from_armor_many(armorInput.text, k, composes)]
    /\ UNCHANGED <<armorInput, notArmor>>

InitArmor == Idle

NextArmor ==
    \/ armorInput = NoInput /\ \E a \in ArmorInputs : ArmorNew(a)
    \/ \E k \in IntoLens : CallParse(k)
    \/ \E k \in IntoLens : CallReadToEnd(k)
    \/ \E k \in IntoLens : \E composes \in BOOLEAN : CallFromArmorMany(k, composes)

SpecArmor == InitArmor /\ [][NextArmor]_vars

\* ---------------------------------------------------------------- claims on armor

\* the armor's lines are as RFC 4880 6.2 has them: the END line names the
\* type of the BEGIN line and at most one line ending follows it
WellFormed(a) == a.typ = a.endTyp /\ Len(a.tail) <= 1

ParseReturned == armorRes.called /\ armorRes.fn = "parse"
FromArmorManyReturned == armorRes.called /\ armorRes.fn = "from_armor_many"

\* C1: from_armor_many fails with InvalidChecksum on every armor whose CRC
\* line differs from the CRC-24 of the decoded payload
C1_BadCrcFailsWithInvalidChecksum ==
    (FromArmorManyReturned /\ armorInput.crc = "bad")
        => armorRes.ret = Err("InvalidChecksum")

\* C2: parse returns InvalidChecksum only for an armor whose CRC line differs
\* from the CRC-24 of the decoded payload, and for every such well-formed
\* armor; on a well-formed armor without CRC line, and on one with the right
\* CRC, it returns the type, the headers and the decoded payload
C2_ParseComparesChecksumWhenPresent ==
    ParseReturned =>
        /\ armorRes.ret = Err("InvalidChecksum") => armorInput.crc = "bad"
        /\ WellFormed(armorInput) =>
              IF armorInput.crc = "bad" THEN armorRes.ret = Err("InvalidChecksum")
              ELSE armorRes.ret = Ok([typ |-> armorInput.typ,
                                      headers |-> [i \in 1..armorInput.nkv |-> i],
                                      decoded |-> armorInput.payload])

C2_Witness ==
    /\ ParseReturned /\ WellFormed(armorInput)
    /\ armorInput.crc = "bad" /\ armorInput.payload # <<>>
    /\ armorRes.ret = Err("InvalidChecksum")

ReadToEndReturned == armorRes.called /\ armorRes.fn = "read_to_end"

FooterMismatch == Err("missmatch in armor ascii footer")

\* C21: reading an armor whose END line names another type than its BEGIN
\* line fails with the footer mismatch error and the Dearmor has recorded
\* no checksum, with or without a CRC line in the text; an armor whose END
\* line names the type of the BEGIN line never fails with that error
C21_FooterTypeMustEqualHeaderType ==
    ReadToEndReturned =>
        IF armorInput.typ # armorInput.endTyp
        THEN /\ armorRes.ret = FooterMismatch
             /\ armorRes.checksum = None
             /\ armorRes.typ = Some(armorInput.typ)
        ELSE armorRes.ret # FooterMismatch

C21_Witness ==
    /\ ReadToEndReturned
    /\ armorInput.typ # armorInput.endTyp
    /\ armorInput.crc = "good" /\ armorInput.payload # <<>>
    /\ armorRes.ret = FooterMismatch /\ armorRes.checksum = None

\* ---------------------------------------------------------------- reading a Dearmor call by call
\* armor.rs, Dearmor::read over a source that hands over its bytes in chunks

\* most calls of read on one Dearmor
MaxCalls == 6

\* most reads of the exhausted source that one call of read is followed through
MaxPolls == 2

\* the lengths of the caller's buffer
ReadLens == {1, 3}

\* what the parser reports with Incomplete: Needed::Unknown or Needed::Size(sz)
NeededValues == {NeededUnknown, NeededSize(1), NeededSize(InitialCapacity + 1)}

\* the armors read call by call: well-formed ones with one-valued payload
\* bytes, and every text that is such an armor cut short
StreamArmors ==
    {a \in ArmorInputs :
        /\ a.typ = PublicKeyBlock /\ a.endTyp = PublicKeyBlock
        /\ a.padded /\ a.crc # "bad" /\ Len(a.tail) <= 1
        /\ \A i \in 1..Len(a.payload) : a.payload[i] = 1}

\* the locals of read between two reads from the source
ReadLocals(pc, into, read, signal, polls) ==
    [pc |-> pc, into |-> into, read |-> read, signal |-> signal, polls |-> polls]

\* Dearmor::new over the first n tokens of the armor a, and a caller with a
\* buffer of length k
ReaderNew(a, n, k) ==
    /\ reader = NoInput
    /\ reader' = [d |-> DearmorNew(SubSeq(ArmorText(a), 1, n)),
                  armor |-> a, complete |-> (n = Len(ArmorText(a))),
                  chunked |-> FALSE]
    /\ readCall' = ReadLocals("idle", Zeroed(k), 0, None, 0)
    /\ UNCHANGED <<readLog, notRead>>

\* the numbers of bytes one read from the source can give: none at its end,
\* otherwise a part of what is left or all of it
SourceSizes(d) ==
    IF d.inner = <<>> \/ Len(d.buffer) >= d.capacity THEN {0}
    ELSE {sz \in {1, 2, Len(d.inner)} : sz <= Len(d.inner) /\ Len(d.buffer) + sz <= d.capacity}

\* self.inner.read(b.space()); b.fill(sz), with sz bytes from the source
FillWith(d, sz) ==
    [d EXCEPT !.buffer = d.buffer \o SubSeq(d.inner, 1, sz),
              !.inner = SubSeq(d.inner, sz + 1, Len(d.inner))]

\* read returns ret: the call goes to the log with the caller's buffer before
\* and after it and the typ and headers of the Dearmor
ReadReturns(d, into, ret) ==
    /\ readLog' = Append(readLog, [ret |-> ret, before |-> readCall.into, into |-> into,
                                   typ |-> d.typ, headers |-> d.headers])
    /\ readCall' = ReadLocals("idle", into, 0, None, 0)

\* one round of while read < into_len: sz bytes come from the source, the
\* loop 'outer runs; needed is what the parser reports if it ends Incomplete
ReadRound(read, sz, needed) ==
    /\ reader # NoInput
    /\ Len(readLog) < MaxCalls
    /\ IF readLog = <<>> THEN TRUE ELSE readLog[Len(readLog)].ret.ok
    /\ sz \in SourceSizes(reader.d)
    /\ sz = 0 => readCall.polls < MaxPolls
    /\ \E filled \in {FillWith(reader.d, sz)} :
         IF filled.buffer = <<>>
         THEN /\ ReadReturns(filled, readCall.into, Ok(read))
              /\ reader' = [reader EXCEPT !.d = filled,
                                          !.chunked = @ \/ sz < Len(reader.d.inner)]
         ELSE \E x \in {InnerLoop(filled, read, readCall.into, None)} :
                /\ reader' = [reader EXCEPT !.d = x.d,
                                            !.chunked = @ \/ sz < Len(reader.d.inner)]
                /\ CASE x.how = "full" -> ReadReturns(x.d, x.into, Ok(x.read))
                     [] x.how = "return" -> ReadReturns(x.d, x.into, Err(x.err))
                     [] OTHER ->
                          readCall' =
                              ReadLocals("loop", x.into, x.read,
                                         Some([needed |-> needed, capacity |-> x.d.capacity]),
                                         IF sz = 0 THEN readCall.polls + 1
                                         ELSE readCall.polls)
                /\ x.how \notin {"full", "return"} => UNCHANGED readLog
    /\ UNCHANGED notRead

\* a call of read: let mut read = 0, and the first round
ReadBegin(sz, needed) == readCall.pc = "idle" /\ ReadRound(0, sz, needed)

\* the next round of a call whose parser was left Incomplete
ReadResume(sz, needed) == readCall.pc = "loop" /\ ReadRound(readCall.read, sz, needed)

InitRead == Idle

NextRead ==
    \/ /\ reader = NoInput
       /\ \E a \in StreamArmors : \E n \in 0..Len(ArmorText(a)) : \E k \in ReadLens :
             ReaderNew(a, n, k)
    \/ reader # NoInput /\ \E sz \in 0..MaxText : \E needed \in NeededValues :
          ReadBegin(sz, needed)
    \/ reader # NoInput /\ \E sz \in 0..MaxText : \E needed \in NeededValues :
          ReadResume(sz, needed)

SpecRead == InitRead /\ [][NextRead]_vars

\* ---------------------------------------------------------------- claims on reading call by call

\* C18: read terminates on every finite input: a call in which the source
\* has returned zero bytes while the parser is Incomplete with unparsed bytes
\* in the buffer has returned (with the error PacketIncomplete); it does not
\* go on to read from the source and parse the same bytes again.
C18_ReadFailsAtEndOfInput ==
    (readCall # NotCalled /\ readCall.pc = "loop") => readCall.polls = 0

\* the call reads the exhausted source again and again: after MaxPolls reads
\* of zero bytes it is where it was after the first
RetriesTheSameParse ==
    /\ readCall # NotCalled /\ readCall.pc = "loop" /\ readCall.polls = MaxPolls
    /\ reader.d.inner = <<>> /\ reader.d.buffer # <<>>

IsCapacity(c) == \E j \in 0..14 : c = InitialCapacity * (2 ^ j)

CapacityNeverChanges == reader # NoInput => reader.d.capacity = InitialCapacity

\* the first n bytes of the caller's buffer, n as the call returned it
Got(e) == SubSeq(e.into, 1, IF e.ret.val <= Len(e.into) THEN e.ret.val ELSE Len(e.into))

\* the bytes the first i calls returned, without the line endings
RECURSIVE GotUpTo(_)
GotUpTo(i) ==
    IF i = 0 THEN <<>>
    ELSE GotUpTo(i - 1) \o SelectSeq(Got(readLog[i]), LAMBDA t : t.c # "nl")

IsPrefix(s, t) == Len(s) <= Len(t) /\ s = SubSeq(t, 1, Len(s))

\* every call so far returned n <= k bytes in into[0..n], the bytes returned
\* are the Radix-64 characters of the body in their order, typ and headers
\* are there with the first byte, and a call that returns 0 comes after the
\* whole body and leaves the caller's buffer as it was
DeliversBody ==
    \A i \in 1..Len(readLog) :
       LET e == readLog[i]
       IN  /\ e.ret.ok
           /\ e.ret.val <= Len(e.into)
           /\ IsPrefix(GotUpTo(i), Base64Chars(reader.armor.payload))
           /\ e.ret.val > 0 =>
                 /\ e.typ = Some(reader.armor.typ)
                 /\ e.headers = [j \in 1..reader.armor.nkv |-> j]
           /\ e.ret.val = 0 =>
                 /\ GotUpTo(i) = Base64Chars(reader.armor.payload)
                 /\ e.into = e.before

\* C20: for every armored input, every buffer length k >= 1 and every
\* chunking of the source, each call of read returns n <= k with the bytes in
\* into[0..n]; the bytes of successive calls are the Radix-64 characters of
\* the body in input order, nothing lost, doubled or overwritten; typ and
\* headers are populated when the first body byte is returned; once the body
\* is exhausted read returns 0 and leaves the caller's buffer unchanged.
C20_ReadsDeliverBodyInOrder ==
    (reader # NoInput /\ reader.complete) => DeliversBody

\* what holds: the same for a source that hands over all it has at once
WholeSourceDeliversBody ==
    (reader # NoInput /\ reader.complete /\ ~reader.chunked) => DeliversBody

\* ================================================================ one packet
\* packet/single.rs

\* longest input, in octets, of a call of read_packet_len
MaxLenInput == 5

\* longest input, in octets, of a call of read_partial_bodies
MaxPartialInput == 6

\* ---- byte slices

\* a buffer of size bytes that holds the octets at[i] at the offsets i of
\* DOMAIN at (counted from 0) and the octet fill everywhere else
Bytes(size, at, fill) == [size |-> size, at |-> at, fill |-> fill]

\* the buffer that holds the octets of the sequence octs
BytesOf(octs) == Bytes(Len(octs), [i \in 0..(Len(octs) - 1) |-> octs[i + 1]], 0)

ByteAt(mem, i) == IF i \in DOMAIN mem.at THEN mem.at[i] ELSE mem.fill

\* &[u8]: len bytes of a buffer from the offset off
Slice(off, len) == [off |-> off, len |-> len]

\* the whole of a buffer
WholeOf(mem) == Slice(0, mem.size)

\* &input[0..n] and &input[n..]
Front(input, n) == Slice(input.off, n)
Rest(input, n) == Slice(input.off + n, input.len - n)

\* where a slice ends in its buffer
EndOf(input) == input.off + input.len

\* ---- types::PacketLength

Fixed(n) == [k |-> "Fixed", n |-> n]
Partial(n) == [k |-> "Partial", n |-> n]
Indeterminated == [k |-> "Indeterminated", n |-> 0]

\* Err(nom::Err::Incomplete(Needed::Size(n)))
NeedMore(n) == [k |-> "incomplete", needed |-> NeededSize(n)]

\* ---- nom::number::streaming

be_u8(mem, input) ==
    IF input.len < 1 THEN NeedMore(1)
    ELSE ParsedOk(1, ByteAt(mem, input.off))

be_u32(mem, input) ==
    IF input.len < 4 THEN NeedMore(4)
    ELSE ParsedOk(4, (ByteAt(mem, input.off) * 16777216)
                       + (ByteAt(mem, input.off + 1) * 65536)
                       + (ByteAt(mem, input.off + 2) * 256)
                       + ByteAt(mem, input.off + 3))

\* util::u32_as_usize
u32_as_usize(v) == v

\* ---- read_packet_len

\* read_packet_len with the mask 0x0F for the exponent of a partial length
ReadPacketLenNarrowMask(mem, input) ==
    With(be_u8(mem, input), LAMBDA olen :
        IF olen.k # "ok" THEN olen
        ELSE CASE olen.val \in 0..191 -> ParsedOk(1, Fixed(olen.val))
               [] olen.val \in 192..223 ->
                    With(be_u8(mem, Rest(input, 1)), LAMBDA a :
                        IF a.k # "ok" THEN a
                        ELSE ParsedOk(2, Fixed(((olen.val - 192) * 256) + 192 + a.val)))
               [] olen.val \in 224..254 -> ParsedOk(1, Partial(2 ^ (olen.val % 16)))
               [] OTHER ->
                    With(be_u32(mem, Rest(input, 1)), LAMBDA v :
                        IF v.k # "ok" THEN v
                        ELSE ParsedOk(5, Fixed(u32_as_usize(v.val)))))

\* read_packet_len: x << 8 is x * 256, x & 0x1F is x % 32, 1 << x is 2 ^ x
read_packet_len(mem, input) ==
    With(be_u8(mem, input), LAMBDA olen :
        IF olen.k # "ok" THEN olen
        ELSE CASE olen.val \in 0..191 -> ParsedOk(1, Fixed(olen.val))
               [] olen.val \in 192..223 ->
                    With(be_u8(mem, Rest(input, 1)), LAMBDA a :
                        IF a.k # "ok" THEN a
                        ELSE ParsedOk(2, Fixed(((olen.val - 192) * 256) + 192 + a.val)))
               [] olen.val \in 224..254 -> ParsedOk(1, Partial(2 ^ (olen.val % 32)))
               [] OTHER ->
                    With(be_u32(mem, Rest(input, 1)), LAMBDA v :
                        IF v.k # "ok" THEN v
                        ELSE ParsedOk(5, Fixed(u32_as_usize(v.val)))))

\* ---- read_partial_bodies

\* ParseResult::Partial(out)
ParseResultPartial(out) == [k |-> "Partial", out |-> out]

\* the loop of read_partial_bodies that takes a Fixed chunk for one more
\* Partial chunk and reads on
RECURSIVE PartialLoopReadsOn(_, _, _, _)
PartialLoopReadsOn(mem, input, out, rest) ==
    With(read_packet_len(mem, rest), LAMBDA res :
        IF res.k # "ok" THEN res
        ELSE With(Rest(rest, res.used), LAMBDA r0 :
                 IF res.val.k \in {"Partial", "Fixed"}
                 THEN IF r0.len < res.val.n THEN NeedMore(res.val.n - r0.len)
                      ELSE PartialLoopReadsOn(mem, input,
                                              Append(out, Front(r0, res.val.n)),
                                              Rest(r0, res.val.n))
                 ELSE ParsedOk(input.len, ParseResultPartial(Append(out, r0)))))

\* loop { let res = read_packet_len(rest)?; match res.1 { .. } } with
\* Ok((rest, ParseResult::Partial(out))): r0 is res.0
RECURSIVE PartialLoop(_, _, _, _)
PartialLoop(mem, input, out, rest) ==
    With(read_packet_len(mem, rest), LAMBDA res :
        IF res.k # "ok" THEN res
        ELSE With(Rest(rest, res.used), LAMBDA r0 :
                 CASE res.val.k = "Partial" ->
                        IF r0.len < res.val.n THEN NeedMore(res.val.n - r0.len)
                        ELSE PartialLoop(mem, input, Append(out, Front(r0, res.val.n)),
                                         Rest(r0, res.val.n))
                   [] res.val.k = "Fixed" ->
                        IF r0.len < res.val.n THEN NeedMore(res.val.n - r0.len)
                        ELSE ParsedOk(EndOf(Front(r0, res.val.n)) - input.off,
                                      ParseResultPartial(Append(out, Front(r0, res.val.n))))
                   [] OTHER ->
                        ParsedOk(input.len, ParseResultPartial(Append(out, r0)))))

read_partial_bodies(mem, input, len) ==
    IF input.len < len THEN NeedMore(len - input.len)
    ELSE PartialLoop(mem, input, <<Front(input, len)>>, Rest(input, len))

\* ---- the calls

\* the octets after the first one in the inputs of read_packet_len: the one
\* that follows the first octet is below 128 when the first octet is 255, so
\* that the 32-bit length stays below 2^31
SecondOctets(olen) == IF olen = 255 THEN {0, 127} ELSE {0, 127, 255}
LaterOctets == {0, 255}

LenInputs ==
    {<<>>} \cup
    UNION {{<<olen>> \o t : t \in {<<>>} \cup UNION {{<<a>> \o u : u \in SeqsUpTo(LaterOctets, MaxLenInput - 2)} : a \in SecondOctets(olen)}} : olen \in 0..255}

\* the octets of the inputs of read_partial_bodies: the length octets of
\* Fixed(0), Fixed(1), Partial(1) and Partial(2), which are body octets as
\* well
PartialOctets == {0, 1, 224, 225}
PartialInputs == SeqsUpTo(PartialOctets, MaxPartialInput)
FirstLens == {1, 2}

CallReadPacketLen(octs) ==
    /\ singleCall = NotCalled
    /\ singleCall' = [called |-> TRUE, fn |-> "read_packet_len", input |-> octs,
                      ret |-> read_packet_len(BytesOf(octs), WholeOf(BytesOf(octs)))]
    /\ UNCHANGED notSingle

CallReadPartialBodies(octs, len) ==
    /\ singleCall = NotCalled
    /\ singleCall' = [called |-> TRUE, fn |-> "read_partial_bodies", input |-> octs,
                      len |-> len,
                      ret |-> read_partial_bodies(BytesOf(octs), WholeOf(BytesOf(octs)),
                                                  len)]
    /\ UNCHANGED notSingle

InitSingle == Idle

NextSingle ==
    \/ singleCall = NotCalled /\ \E octs \in LenInputs : CallReadPacketLen(octs)
    \/ singleCall = NotCalled
         /\ \E octs \in PartialInputs : \E len \in FirstLens :
               CallReadPartialBodies(octs, len)

SpecSingle == InitSingle /\ [][NextSingle]_vars

\* ---------------------------------------------------------------- claims on one packet

ReadPacketLenReturned == singleCall.called /\ singleCall.fn = "read_packet_len"

\* the ranges of the first octet of a new-format length
LengthRanges == <<0..191, 192..223, 224..254, {255}>>

\* C23: the four ranges of the first octet are disjoint and cover 0..255, and
\* read_packet_len gives Fixed(o) for o in 0..191, Fixed(((o - 192) << 8) +
\* 192 + a) in 192..8383 for o in 192..223 and a next octet a, Partial of a
\* power of two from 2^0 to 2^30 for o in 224..254, and Fixed of the
\* big-endian value of the next four octets for o = 255
C23_NewFormatLength ==
    (ReadPacketLenReturned /\ singleCall.input # <<>>) =>
        LET octs == singleCall.input
            o == octs[1]
            r == singleCall.ret
        IN  /\ Cardinality({i \in 1..4 : o \in LengthRanges[i]}) = 1
            /\ o \in LengthRanges[1] => r = ParsedOk(1, Fixed(o))
            /\ (o \in LengthRanges[2] /\ Len(octs) >= 2) =>
                  /\ r = ParsedOk(2, Fixed(((o - 192) * 256) + octs[2] + 192))
                  /\ r.val.n \in 192..8383
            /\ o \in LengthRanges[3] =>
                  /\ r.k = "ok" /\ r.used = 1 /\ r.val.k = "Partial"
                  /\ r.val.n = 2 ^ (o - 224)
                  /\ \E e \in 0..30 : r.val.n = 2 ^ e
            /\ (o \in LengthRanges[4] /\ Len(octs) >= 5) =>
                  r = ParsedOk(5, Fixed((((((octs[2] * 256) + octs[3]) * 256) + octs[4])
                                            * 256) + octs[5]))

C23_Witness ==
    /\ ReadPacketLenReturned
    /\ singleCall.input = <<254>>
    /\ singleCall.ret = ParsedOk(1, Partial(1073741824))

PartialBodiesReturned == singleCall.called /\ singleCall.fn = "read_partial_bodies"

\* the length field at the offset e of an input of L octets
LengthAt(mem, L, e) == read_packet_len(mem, Slice(e, L - e))

\* E is the set of the offsets where the chunks of a partial-length body end:
\* the first chunk ends at len; after every chunk but the last a Partial
\* length and its chunk follow, after the last but one a Fixed length and its
\* chunk; all of it lies in the input of L octets
IsChunkChain(mem, L, len, E) ==
    /\ len \in E /\ Min(E) = len /\ Cardinality(E) >= 2
    /\ \A j \in 1..(Cardinality(E) - 1) :
          LET pl == LengthAt(mem, L, Nth(E, j))
          IN  /\ pl.k = "ok"
              /\ Nth(E, j + 1) = Nth(E, j) + pl.used + pl.val.n
              /\ pl.val.k = (IF j + 1 < Cardinality(E) THEN "Partial" ELSE "Fixed")

\* the chunks that end at the offsets of E, in the order of the input
ChunksOf(mem, L, len, E) ==
    [j \in 1..Cardinality(E) |->
        IF j = 1 THEN Slice(0, len)
        ELSE Slice(Nth(E, j - 1) + LengthAt(mem, L, Nth(E, j - 1)).used,
                   LengthAt(mem, L, Nth(E, j - 1)).val.n)]

\* C24: read_partial_bodies returns the chunks of the body in the order of
\* the input, the first of the given length, then one for every Partial
\* length and last the one of the first Fixed length, with the remaining
\* input starting right after that chunk; if the input ends before the end
\* of the chunk that closes the body it returns Incomplete and no chunks
C24_PartialBodiesInArrivalOrder ==
    PartialBodiesReturned =>
        LET mem == BytesOf(singleCall.input)
            L == Len(singleCall.input)
            len == singleCall.len
            r == singleCall.ret
            chains == {E \in SUBSET (len..L) : IsChunkChain(mem, L, len, E)}
        IN  IF chains = {} THEN r.k = "incomplete"
            ELSE /\ Cardinality(chains) = 1
                 /\ \A E \in chains :
                       r = ParsedOk(Nth(E, Cardinality(E)),
                                    ParseResultPartial(ChunksOf(mem, L, len, E)))

C24_Witness ==
    /\ PartialBodiesReturned
    /\ singleCall.input = <<1, 225, 1, 0, 0, 224>> /\ singleCall.len = 1
    /\ singleCall.ret = ParsedOk(5, ParseResultPartial(
                            <<Slice(0, 1), Slice(2, 2), Slice(5, 0)>>))

\* ================================================================ packet streams
\* packet/single.rs (headers, one packet), packet/many.rs (packet::parser)

\* most packets of a stream of the model
MaxPackets == 2

\* most rounds of the loop of packet::parser in one call
MaxRounds == 6

\* ---- headers

\* the values Tag::from_u8 knows: the tags body_parser dispatches on
\* (PublicKeyEncryptedSessionKey 1, Signature 2, SymKeyEncryptedSessionKey 3,
\* OnePassSignature 4, SecretKey 5, PublicKey 6, SecretSubkey 7,
\* CompressedData 8, SymEncryptedData 9, Marker 10, LiteralData 11, Trust 12,
\* UserId 13, PublicSubkey 14, UserAttribute 17, SymEncryptedProtectedData
\* 18, ModDetectionCode 19)
KnownTags == (1..14) \cup {17, 18, 19}

\* take_bits!(n) of whole octets: the big-endian value of the n octets
TakeOctets(mem, input, n) ==
    IF input.len < n THEN NeedMore(n)
    ELSE ParsedOk(n, IF n = 1 THEN ByteAt(mem, input.off)
                     ELSE IF n = 2
                     THEN (ByteAt(mem, input.off) * 256) + ByteAt(mem, input.off + 1)
                     ELSE be_u32(mem, input).val)

\* new_packet_header: bit 7 is 1, bit 6 is 1 (Version::New), six bits of tag,
\* then read_packet_len
new_packet_header(mem, input) ==
    With(be_u8(mem, input), LAMBDA b :
        IF b.k # "ok" THEN b
        ELSE IF b.val < 128 \/ (b.val \div 64) % 2 # 1 THEN ParseError
        ELSE IF (b.val % 64) \notin KnownTags THEN ParseError
        ELSE With(read_packet_len(mem, Rest(input, 1)), LAMBDA len :
                 IF len.k # "ok" THEN len
                 ELSE ParsedOk(1 + len.used,
                               [ver |-> "New", tag |-> b.val % 64, len |-> len.val])))

\* old_packet_header: bit 7 is 1, bit 6 is 0 (Version::Old), four bits of
\* tag, two bits of length type
old_packet_header(mem, input) ==
    With(be_u8(mem, input), LAMBDA b :
        IF b.k # "ok" THEN b
        ELSE IF b.val < 128 \/ (b.val \div 64) % 2 # 0 THEN ParseError
        ELSE IF ((b.val \div 4) % 16) \notin KnownTags THEN ParseError
        ELSE IF b.val % 4 = 3
        THEN ParsedOk(1, [ver |-> "Old", tag |-> (b.val \div 4) % 16,
                          len |-> Indeterminated])
        ELSE With(TakeOctets(mem, Rest(input, 1), 2 ^ (b.val % 4)), LAMBDA len :
                 IF len.k # "ok" THEN len
                 ELSE ParsedOk(1 + len.used,
                               [ver |-> "Old", tag |-> (b.val \div 4) % 16,
                                len |-> Fixed(len.val)])))

\* alt!(new_packet_header | old_packet_header)
PacketHeader(mem, input) ==
    With(new_packet_header(mem, input), LAMBDA h :
        IF h.k = "error" THEN old_packet_header(mem, input) ELSE h)

\* ---- one packet

ParseResultFixed(v) == [k |-> "Fixed", out |-> <<v>>]
ParseResultIndeterminated == [k |-> "Indeterminated", out |-> <<>>]

\* switch!(value!(head.2), ..): the body of a packet with the length len
PacketBody(mem, input, len) ==
    CASE len.k = "Fixed" ->
           IF input.len < len.n THEN NeedMore(len.n)
           ELSE ParsedOk(len.n, ParseResultFixed(Front(input, len.n)))
      [] len.k = "Partial" -> read_partial_bodies(mem, input, len.n)
      [] OTHER -> ParsedOk(0, ParseResultIndeterminated)

\* single::parser: the header, then the body
single_parser(mem, input) ==
    With(PacketHeader(mem, input), LAMBDA head :
        IF head.k # "ok" THEN head
        ELSE With(PacketBody(mem, Rest(input, head.used), head.val.len), LAMBDA body :
                 IF body.k # "ok" THEN body
                 ELSE ParsedOk(head.used + body.used,
                               [ver |-> head.val.ver, tag |-> head.val.tag,
                                len |-> head.val.len, body |-> body.val])))

\* the first octets with which the bodies of the model do not parse
MalformedBody == 255
TruncatedBody == 254

\* $Packet::from_slice(ver, body): how the parser of the packet type takes
\* the body, told by the first octet of the body
FromSlice(mem, ver, tag, body) ==
    IF body = <<>> \/ body[1].len = 0 THEN "ok"
    ELSE IF ByteAt(mem, body[1].off) = MalformedBody THEN "error"
    ELSE IF ByteAt(mem, body[1].off) = TruncatedBody THEN "incomplete"
    ELSE "ok"

\* a Packet: its tag and where its first octet lies in the stream
Packet(tag, at) == [tag |-> tag, at |-> at]

\* body_parser
packet_body_parser(mem, ver, tag, body, at) ==
    CASE FromSlice(mem, ver, tag, body) = "ok" -> Ok(Packet(tag, at))
      [] FromSlice(mem, ver, tag, body) = "incomplete" -> Err("Incomplete")
      [] OTHER -> Err("InvalidPacketContent")

\* single::parser as many.rs calls it: the rest of the input with the Packet
\* or the error of its body, Incomplete, or the error of the header
SinglePacket(mem, input) ==
    With(single_parser(mem, input), LAMBDA r :
        IF r.k # "ok" THEN r
        ELSE ParsedOk(r.used, packet_body_parser(mem, r.val.ver, r.val.tag,
                                                 r.val.body.out, input.off)))

\* ---- packet::parser

\* let mut capacity = 1024
ParserCapacity == 1024

\* the locals of packet::parser: the buffer b holds the avail octets of the
\* stream from the offset off on and has room for capacity octets
ParserLocals(capacity, off, avail, pkts, needed, second_round) ==
    [capacity |-> capacity, off |-> off, avail |-> avail, packets |-> pkts,
     needed |-> needed, second_round |-> second_round]

\* b.space(): the room left in the buffer
Space(l) == l.capacity - l.avail

\* loop { let length = match single::parser(b.data()) { .. }; b.consume(length) }:
\* the locals when the loop is left, with the value the function returns
\* from inside the loop, if it does
RECURSIVE PacketLoop(_, _)
PacketLoop(mem, l) ==
    With(SinglePacket(mem, Slice(l.off, l.avail)), LAMBDA r :
        CASE r.k = "ok" ->
               PacketLoop(mem,
                   [l EXCEPT !.packets = IF r.val.ok THEN Append(@, r.val.val) ELSE @,
                             !.off = @ + r.used, !.avail = @ - r.used])
          [] r.k = "incomplete" ->
               [l |-> [l EXCEPT !.needed = Some(r.needed)], ret |-> None]
          [] OTHER -> [l |-> l, ret |-> Some(Err("ParsingError"))])

\* if let Some(Needed::Size(sz)) = needed { .. capacity *= 2; b.grow(capacity) }
GrowBuffer(l) ==
    IF l.needed.some /\ l.needed.val.size /\ l.needed.val.sz > l.capacity
         /\ l.capacity * 2 < max_capacity
    THEN [l EXCEPT !.capacity = @ * 2]
    ELSE l

\* one round of the outer loop after input.read has given sz octets: the
\* locals after it with the value the function returns in it, if it does
ParserRound(mem, l, sz) ==
    With([l EXCEPT !.avail = @ + sz], LAMBDA f :
        IF f.avail = 0 THEN [l |-> f, ret |-> Some(Ok(f.packets))]
        ELSE IF f.needed.some /\ sz = 0 /\ f.second_round
        THEN [l |-> f, ret |-> Some(Err("PacketIncomplete"))]
        ELSE With(PacketLoop(mem, [f EXCEPT !.second_round =
                                       @ \/ (f.needed.some /\ sz = 0)]), LAMBDA x :
                 IF x.ret.some THEN x
                 ELSE [l |-> GrowBuffer(x.l), ret |-> None]))

\* ---- the streams

\* the pieces of a packet: one octet, or n octets of body whose first octet
\* is given and whose other octets are 0
Octet(v) == [c |-> "octet", v |-> v, n |-> 1]
Body(n, first) == [c |-> "body", v |-> first, n |-> n]

\* the packets of the model: what they consist of and what they are
PacketShape(pieces, tag, kind) == [pieces |-> pieces, tag |-> tag, kind |-> kind]

UserIdShape == PacketShape(<<Octet(205), Octet(3), Body(3, 1)>>, 13, "good")
OldUserIdShape == PacketShape(<<Octet(180), Octet(2), Body(2, 1)>>, 13, "good")
MalformedShape == PacketShape(<<Octet(205), Octet(3), Body(3, MalformedBody)>>, 13, "bad body")
TruncatedShape == PacketShape(<<Octet(194), Octet(1), Body(1, TruncatedBody)>>, 2, "bad body")
PrivateTagShape == PacketShape(<<Octet(252), Octet(2), Body(2, 1)>>, 60, "bad header")
Fixed1020Shape ==
    PacketShape(<<Octet(203), Octet(195), Octet(60), Body(1020, 1)>>, 11, "good")
Fixed1023Shape ==
    PacketShape(<<Octet(203), Octet(195), Octet(63), Body(1023, 1)>>, 11, "good")
Fixed1025Shape ==
    PacketShape(<<Octet(203), Octet(195), Octet(65), Body(1025, 1)>>, 11, "good")
Partial512Shape ==
    PacketShape(<<Octet(203), Octet(233), Body(512, 1), Octet(2), Body(2, 0)>>,
                11, "good")
Partial1024Shape ==
    PacketShape(<<Octet(203), Octet(234), Body(1024, 1), Octet(1), Body(1, 0)>>,
                11, "good")

PacketShapes ==
    {UserIdShape, OldUserIdShape, MalformedShape, TruncatedShape, PrivateTagShape,
     Fixed1020Shape, Fixed1023Shape, Fixed1025Shape, Partial512Shape,
     Partial1024Shape}

RECURSIVE PiecesLen(_)
PiecesLen(pieces) ==
    IF pieces = <<>> THEN 0 ELSE pieces[1].n + PiecesLen(Tail(pieces))

\* the offsets of the stream at which the pieces put an octet that is not 0,
\* with the octet, the first piece lying at the offset off
RECURSIVE PiecesAt(_, _)
PiecesAt(pieces, off) ==
    IF pieces = <<>> THEN {}
    ELSE (IF pieces[1].n > 0 /\ pieces[1].v # 0 THEN {<<off, pieces[1].v>>} ELSE {})
           \cup PiecesAt(Tail(pieces), off + pieces[1].n)

RECURSIVE AllPieces(_)
AllPieces(shapes) ==
    IF shapes = <<>> THEN <<>> ELSE shapes[1].pieces \o AllPieces(Tail(shapes))

\* the octets of a stream of packets without its last cut octets
StreamBytes(shapes, cut) ==
    LET set == PiecesAt(AllPieces(shapes), 0)
    IN  Bytes(PiecesLen(AllPieces(shapes)) - cut,
              [i \in {p[1] : p \in set} |-> (CHOOSE p \in set : p[1] = i)[2]], 0)

\* where the i-th packet of the stream starts
StartOf(shapes, i) == PiecesLen(AllPieces(SubSeq(shapes, 1, i - 1)))

\* the sizes of the reads of the model: the reader gives as much as it has
\* and the buffer has room for, or at most this many octets
ReadSizes == {1, 700, max_capacity}

PacketStreams == SeqsUpTo(PacketShapes, MaxPackets)

\* ---- the calls

\* packet::parser(input) is called on a reader over the stream
ParserBegin(shapes, cut) ==
    /\ pktSource = NoInput
    /\ pktSource' = [shapes |-> shapes, cut |-> cut, mem |-> StreamBytes(shapes, cut),
                     given |-> 0]
    /\ pktParser' = [called |-> TRUE, rounds |-> 0, ret |-> None, full_reads |-> 0,
                     l |-> ParserLocals(ParserCapacity, 0, 0, <<>>, None, FALSE)]
    /\ UNCHANGED notMany

\* what input.read(b.space()) can give: at most size octets, at least one
\* if the reader has one and the buffer has room for it
SizeOfRead(size) ==
    LET most == IF Space(pktParser.l) < pktSource.mem.size - pktSource.given
                THEN Space(pktParser.l) ELSE pktSource.mem.size - pktSource.given
    IN  IF size < most THEN size ELSE most

\* one round of the loop of packet::parser
ParserStep(size) ==
    /\ pktSource # NoInput
    /\ ~pktParser.ret.some
    /\ pktParser.rounds < MaxRounds
    /\ \E sz \in {SizeOfRead(size)} :
       \E x \in {ParserRound(pktSource.mem, pktParser.l, sz)} :
          /\ pktSource' = [pktSource EXCEPT !.given = @ + sz]
          /\ pktParser' = [pktParser EXCEPT
                             !.rounds = @ + 1, !.l = x.l, !.ret = x.ret,
                             !.full_reads = @ + (IF /\ Space(pktParser.l) = 0
                                                    /\ pktSource.given < pktSource.mem.size
                                                 THEN 1 ELSE 0)]
    /\ UNCHANGED notMany

InitMany == Idle

NextMany ==
    \/ pktSource = NoInput
         /\ \E shapes \in PacketStreams : \E cut \in {0, 1} :
               Len(shapes) >= cut /\ ParserBegin(shapes, cut)
    \/ pktSource # NoInput /\ \E size \in ReadSizes : ParserStep(size)

SpecMany == InitMany /\ [][NextMany]_vars

\* ---------------------------------------------------------------- claims on packet streams

ParserReturned == pktParser.called /\ pktParser.ret.some

\* the positions of the packets of the stream whose header and body parse
GoodIdx(shapes) == {i \in 1..Len(shapes) : shapes[i].kind = "good"}

\* the packets of the stream that parse, in the order of the stream
GoodPackets(shapes) ==
    [j \in 1..Cardinality(GoodIdx(shapes)) |->
        Packet(shapes[Nth(GoodIdx(shapes), j)].tag,
               StartOf(shapes, Nth(GoodIdx(shapes), j)))]

\* no packet of the stream is longer than the first buffer
FitsBuffer(shapes) ==
    \A i \in 1..Len(shapes) : PiecesLen(shapes[i].pieces) <= ParserCapacity

HasKind(shapes, kind) == \E i \in 1..Len(shapes) : shapes[i].kind = kind

\* C22: over a whole stream in which some packets do not parse (the body is
\* malformed or the header carries an unknown tag) and every packet fits the
\* buffer, packet::parser returns Ok with exactly the packets that parse, in
\* the order of the stream
C22_FailingPacketsAreSkipped ==
    (ParserReturned /\ pktSource.cut = 0 /\ FitsBuffer(pktSource.shapes)) =>
        pktParser.ret.val = Ok(GoodPackets(pktSource.shapes))

\* what the code does: packets whose body does not parse are skipped, a
\* packet whose header does not parse ends the call with the error of the
\* header, whatever was parsed before it
BadBodiesAreSkippedBadHeadersAbort ==
    (ParserReturned /\ pktSource.cut = 0 /\ FitsBuffer(pktSource.shapes)) =>
        IF HasKind(pktSource.shapes, "bad header")
        THEN pktParser.ret.val = Err("ParsingError")
        ELSE pktParser.ret.val = Ok(GoodPackets(pktSource.shapes))

\* C29: packet::parser does not fail with PacketIncomplete over a stream
\* that the reader delivers completely
C29_PacketIncompleteOnlyAtEndOfInput ==
    (ParserReturned /\ pktSource.cut = 0) =>
        pktParser.ret.val # Err("PacketIncomplete")

\* what the code does: PacketIncomplete is returned after two reads of zero
\* octets with data in the buffer, whether the reader is at its end or the
\* buffer is full
PacketIncompleteAfterTwoEmptyReads ==
    (ParserReturned /\ pktParser.ret.val = Err("PacketIncomplete")) =>
        \/ pktSource.cut = 1
        \/ pktParser.full_reads >= 2

\* ================================================================ secret keys
\* packet/tags/privkey.rs

\* most octets after the S2K and IV fields of a secret key of the model
MaxTail == 22

\* ---- what the parser is made of

\* take!(n)
Take(mem, input, n) ==
    IF input.len < n THEN NeedMore(n) ELSE ParsedOk(n, Front(input, n))

\* util::mpi: two octets with the length in bits, then the octets
mpi(mem, input) ==
    With(TakeOctets(mem, input, 2), LAMBDA bits :
        IF bits.k # "ok" THEN bits
        ELSE With(Take(mem, Rest(input, 2), (bits.val + 7) \div 8), LAMBDA v :
                 IF v.k # "ok" THEN v ELSE ParsedOk(2 + v.used, v.val)))

\* SymmetricKeyAlgorithm::from_u8 knows Plaintext 0, IDEA 1, TripleDES 2,
\* CAST5 3, Blowfish 4, AES128 7, AES192 8, AES256 9, Twofish 10
SymmetricKeyAlgorithms == (0..4) \cup (7..10)

\* SymmetricKeyAlgorithm::block_size
block_size(alg) ==
    CASE alg = 0 -> 0
      [] alg \in 1..4 -> 8
      [] OTHER -> 16

\* StringToKeyType::from_u8 knows Simple 0, Salted 1, Reserved 2,
\* IteratedAndSalted 3
StringToKeyTypes == 0..3

\* StringToKeyType::param_len: the hash algorithm, the salt, the count
param_len(s2k) ==
    CASE s2k = 0 -> 1
      [] s2k = 1 -> 9
      [] s2k = 3 -> 10
      [] OTHER -> 0

\* enc_params: switch!(value!(s2k_typ), ..)
EncParams(mem, input, s2k_typ) ==
    CASE s2k_typ = 0 ->
           ParsedOk(0, [sym_alg |-> None, iv |-> None, s2k |-> None, s2k_params |-> None])
      [] s2k_typ \in 1..253 ->
           IF s2k_typ \notin SymmetricKeyAlgorithms THEN ParseError
           ELSE With(Take(mem, input, block_size(s2k_typ)), LAMBDA iv :
                    IF iv.k # "ok" THEN iv
                    ELSE ParsedOk(iv.used, [sym_alg |-> Some(s2k_typ), iv |-> Some(iv.val),
                                            s2k |-> None, s2k_params |-> None]))
      [] OTHER ->
           With(be_u8(mem, input), LAMBDA sym_alg :
             IF sym_alg.k # "ok" THEN sym_alg
             ELSE IF sym_alg.val \notin SymmetricKeyAlgorithms THEN ParseError
             ELSE With(be_u8(mem, Rest(input, 1)), LAMBDA s2k :
               IF s2k.k # "ok" THEN s2k
               ELSE IF s2k.val \notin StringToKeyTypes THEN ParseError
               ELSE With(Take(mem, Rest(input, 2), param_len(s2k.val)), LAMBDA ps :
                 IF ps.k # "ok" THEN ps
                 ELSE With(Take(mem, Rest(input, 2 + ps.used), block_size(sym_alg.val)),
                           LAMBDA iv :
                        IF iv.k # "ok" THEN iv
                        ELSE ParsedOk(2 + ps.used + iv.used,
                                      [sym_alg |-> Some(sym_alg.val), iv |-> Some(iv.val),
                                       s2k |-> Some(s2k.val),
                                       s2k_params |-> Some(ps.val)])))))

\* checksum_len: switch!(value!(s2k_typ), ..)
checksum_len(s2k_typ) ==
    CASE s2k_typ = 0 -> 0
      [] s2k_typ = 254 -> 20
      [] OTHER -> 2

\* Err(Incomplete(Needed::Size(n))) with n the usize that is below less than 0
WrappedNeed(below) ==
    [k |-> "incomplete", needed |-> [size |-> TRUE, wrapped |-> TRUE, below |-> below]]

\* the builds of the library: r - checksum_len on usize panics below 0 when
\* overflow is checked and wraps around when it is not
Builds == {"overflow checked", "overflow wraps"}

\* data_len: map!(rest_len, |r| r - checksum_len), data: take!(data_len),
\* checksum: take!(checksum_len)
DataAndChecksum(mem, input, len, build) ==
    IF input.len < len
    THEN IF build = "overflow checked"
         THEN [k |-> "panic", panic |-> "attempt to subtract with overflow"]
         ELSE WrappedNeed(len - input.len)
    ELSE ParsedOk(input.len, [data |-> Front(input, input.len - len),
                              checksum |-> Rest(input, input.len - len)])

\* rsa: n, e, s2k_typ, enc_params, checksum_len, data, checksum
rsa(mem, input, build) ==
    With(mpi(mem, input), LAMBDA n :
      IF n.k # "ok" THEN n
      ELSE With(mpi(mem, Rest(input, n.used)), LAMBDA e :
        IF e.k # "ok" THEN e
        ELSE With(be_u8(mem, Rest(input, n.used + e.used)), LAMBDA s2k_typ :
          IF s2k_typ.k # "ok" THEN s2k_typ
          ELSE With(EncParams(mem, Rest(input, n.used + e.used + 1), s2k_typ.val),
                    LAMBDA enc :
            IF enc.k # "ok" THEN enc
            ELSE With(DataAndChecksum(mem,
                          Rest(input, n.used + e.used + 1 + enc.used),
                          checksum_len(s2k_typ.val), build), LAMBDA dc :
              IF dc.k # "ok" THEN dc
              ELSE ParsedOk(input.len,
                            [n |-> n.val, e |-> e.val,
                             data |-> dc.val.data, checksum |-> dc.val.checksum,
                             iv |-> enc.val.iv,
                             encryption_algorithm |-> enc.val.sym_alg,
                             string_to_key |-> enc.val.s2k,
                             string_to_key_params |-> enc.val.s2k_params,
                             string_to_key_id |-> s2k_typ.val]))))))

\* ---- the inputs

\* n (9 bits) and e (2 bits) as MPIs
RsaMpis == <<0, 9, 1, 5, 0, 2, 3>>

\* n octets of a field
FieldOctets(n) == [i \in 1..n |-> 16 + i]

\* the S2K usage octet with the fields that follow it
EncFields(s2k_typ, alg, s2k) ==
    IF s2k_typ \in 254..255
    THEN <<s2k_typ, alg, s2k>> \o FieldOctets(param_len(s2k)) \o FieldOctets(block_size(alg))
    ELSE IF s2k_typ \in SymmetricKeyAlgorithms
    THEN <<s2k_typ>> \o FieldOctets(block_size(s2k_typ))
    ELSE <<s2k_typ>>

\* the S2K usage octets, algorithms and S2K types of the model
UsageOctets == {0, 3, 5, 7, 254, 255}
UsageAlgorithms == {3, 7}
UsageS2k == {0, 3}

\* the secret keys of the model: the MPIs, the fields and MaxTail more octets,
\* and everything such an input starts with
SecretKeyBodies ==
    {RsaMpis \o EncFields(t, 3, 0) \o FieldOctets(MaxTail) : t \in UsageOctets \ (254..255)}
      \cup {RsaMpis \o EncFields(t, alg, s2k) \o FieldOctets(MaxTail) :
               t \in UsageOctets \cap (254..255), alg \in UsageAlgorithms, s2k \in UsageS2k}

SecretKeyInputs == UNION {{SubSeq(b, 1, l) : l \in 0..Len(b)} : b \in SecretKeyBodies}

\* ---- the calls

CallRsa(octs, build) ==
    /\ privCall = NotCalled
    /\ privCall' = [called |-> TRUE, input |-> octs, build |-> build,
                    ret |-> rsa(BytesOf(octs), WholeOf(BytesOf(octs)), build)]
    /\ UNCHANGED notPriv

InitPriv == Idle

NextPriv ==
    privCall = NotCalled
      /\ \E octs \in SecretKeyInputs : \E build \in Builds : CallRsa(octs, build)

SpecPriv == InitPriv /\ [][NextPriv]_vars

\* ---------------------------------------------------------------- claims on secret keys

\* the S2K usage octet of an input that has one, with the number of octets
\* before the data: the MPIs, the usage octet and the fields after it
UsageOf(octs) == octs[Len(RsaMpis) + 1]
FieldsEnd(octs) ==
    Len(RsaMpis)
      + Len(EncFields(UsageOf(octs),
                      IF Len(octs) > Len(RsaMpis) + 1 THEN octs[Len(RsaMpis) + 2] ELSE 3,
                      IF Len(octs) > Len(RsaMpis) + 2 THEN octs[Len(RsaMpis) + 3] ELSE 0))

\* the usage octet is there, it is one the parser knows, and the fields after
\* it are complete
HasFields(octs) ==
    /\ Len(octs) > Len(RsaMpis)
    /\ UsageOf(octs) \in SymmetricKeyAlgorithms \cup (254..255)
    /\ Len(octs) >= FieldsEnd(octs)

\* the length of the checksum as the claim has it
ClaimedChecksumLen(s2k_typ) == IF s2k_typ = 254 THEN 20 ELSE 2

\* the result holds data and checksum that are the octets after the fields,
\* the checksum being the last len of them
SplitsTail(r, octs, len) ==
    /\ r.k = "ok"
    /\ r.val.data = Slice(FieldsEnd(octs), Len(octs) - FieldsEnd(octs) - len)
    /\ r.val.checksum = Slice(Len(octs) - len, len)

\* C26: the checksum of parsed secret-key material has 2 octets for S2K
\* usage 0, 20 for usage 254 and 2 for usage 255 or a symmetric algorithm id,
\* the data is what lies between the fields and the checksum, and an input
\* with fewer octets left than the checksum has is rejected with an error
C26_ChecksumLengthBySecretUsage ==
    (privCall.called /\ HasFields(privCall.input)) =>
        IF Len(privCall.input) - FieldsEnd(privCall.input)
              >= ClaimedChecksumLen(UsageOf(privCall.input))
        THEN SplitsTail(privCall.ret, privCall.input,
                        ClaimedChecksumLen(UsageOf(privCall.input)))
        ELSE privCall.ret = ParseError

\* what the code does: the checksum has no octets for usage 0, 20 for usage
\* 254 and 2 otherwise; with fewer octets left the subtraction goes below 0,
\* which panics or asks for more input than can exist
SecretChecksumLengths ==
    (privCall.called /\ HasFields(privCall.input)) =>
        IF Len(privCall.input) - FieldsEnd(privCall.input)
              >= checksum_len(UsageOf(privCall.input))
        THEN SplitsTail(privCall.ret, privCall.input,
                        checksum_len(UsageOf(privCall.input)))
        ELSE \/ privCall.ret.k = "panic"
             \/ privCall.ret = WrappedNeed(checksum_len(UsageOf(privCall.input))
                                  - (Len(privCall.input) - FieldsEnd(privCall.input)))

\* ================================================================ AES key wrap
\* crypto/ecc.rs

\* most 64-bit blocks in the data handed to aes_kw_wrap
MaxBlocks == 2

\* ---- the block cipher
\* The aes crate is not part of the sources. The key wrap relies on one thing
\* about it: under one key decrypt_block undoes encrypt_block. The cipher of
\* the model is a two-round Feistel network over octets that has this
\* property and nothing else of AES; Aes128, Aes192 and Aes256 differ by the
\* length of the key.

KeySchedule(key) == (SumSeq(key) + Len(key)) % 256

\* BlockCipher::encrypt_block
encrypt_block(key, b) ==
    LET lo == [i \in 1..8 |-> (b[8 + i] + b[i] + KeySchedule(key)) % 256]
        hi == [i \in 1..8 |-> (b[i] + (3 * lo[(i % 8) + 1]) + i) % 256]
    IN  lo \o hi

\* BlockCipher::decrypt_block
decrypt_block(key, b) ==
    LET lo == SubSeq(b, 1, 8)
        hi == [i \in 1..8 |-> (b[8 + i] + 1024 - (3 * lo[(i % 8) + 1]) - i) % 256]
        was == [i \in 1..8 |-> (lo[i] + 512 - hi[i] - KeySchedule(key)) % 256]
    IN  hi \o was

\* ---- aes_kw_wrap and aes_kw_unwrap

\* static ref IV
IV == [i \in 1..8 |-> 166]

\* data.chunks(8) of data whose length is a multiple of 8
chunks(data) == [k \in 1..(Len(data) \div 8) |-> SubSeq(data, (8 * (k - 1)) + 1, 8 * k)]

\* let t = (n * j + (i + 1)) as u64
Counter(n, j, i) == (n * j) + (i + 1)

\* write_u64::<BigEndian>(t) into t_arr; t stays below 2^32 in the model, so
\* the four high octets are 0
t_arr(t) == [k \in 1..8 |-> IF k <= 4 THEN 0 ELSE (t \div (256 ^ (8 - k))) % 256]

\* a.iter_mut().zip(t_arr.iter()).for_each(|(ai, ti)| *ai ^= ti)
XorOctets(a, ts) == [k \in 1..8 |-> XorBits(a[k], ts[k], 8)]

\* r.iter().fold(.., |mut acc, v| { acc.extend(v); acc })
Extend(acc, r) ==
    acc \o [k \in 1..(8 * Len(r)) |-> r[((k - 1) \div 8) + 1][((k - 1) % 8) + 1]]

\* one pass of the inner loop of $name_wrap; counters lists the values of t
WrapStep(key, n, st, j, i) ==
    LET b == encrypt_block(key, st.a \o st.r[i + 1])
    IN  [a |-> XorOctets(SubSeq(b, 1, 8), t_arr(Counter(n, j, i))),
         r |-> [st.r EXCEPT ![i + 1] = SubSeq(b, 9, 16)],
         counters |-> Append(st.counters, Counter(n, j, i))]

\* for j in 0..=5 { for i in 0..n { .. } }
RECURSIVE WrapLoop(_, _, _, _, _)
WrapLoop(key, n, st, j, i) ==
    IF j > 5 THEN st
    ELSE IF i >= n THEN WrapLoop(key, n, st, j + 1, 0)
    ELSE WrapLoop(key, n, WrapStep(key, n, st, j, i), j, i + 1)

\* $name_wrap up to 3) output the results
WrapRounds(key, data) ==
    WrapLoop(key, Len(data) \div 8, [a |-> IV, r |-> chunks(data), counters |-> <<>>], 0, 0)

\* $name_wrap
name_wrap(key, data) ==
    With(WrapRounds(key, data), LAMBDA st : Extend(st.a, st.r))

\* an inner loop that counts the blocks from 0
UnwrapStepCountsFromZero(key, n, st, j, i) ==
    LET b == decrypt_block(key, XorOctets(st.a, t_arr((n * j) + i)) \o st.r[i + 1])
    IN  [a |-> SubSeq(b, 1, 8),
         r |-> [st.r EXCEPT ![i + 1] = SubSeq(b, 9, 16)],
         counters |-> Append(st.counters, (n * j) + i)]

\* one pass of the inner loop of $name_unwrap
UnwrapStep(key, n, st, j, i) ==
    LET b == decrypt_block(key, XorOctets(st.a, t_arr(Counter(n, j, i))) \o st.r[i + 1])
    IN  [a |-> SubSeq(b, 1, 8),
         r |-> [st.r EXCEPT ![i + 1] = SubSeq(b, 9, 16)],
         counters |-> Append(st.counters, Counter(n, j, i))]

\* for j in (0..=5).rev() { for i in (0..n).rev() { .. } }
RECURSIVE UnwrapLoop(_, _, _, _, _)
UnwrapLoop(key, n, st, j, i) ==
    IF j < 0 THEN st
    ELSE IF i < 0 THEN UnwrapLoop(key, n, st, j - 1, n - 1)
    ELSE UnwrapLoop(key, n, UnwrapStep(key, n, st, j, i), j, i - 1)

\* $name_unwrap up to 3) output the results. Without a first block n is
\* 0 - 1 on usize: a panic of the subtraction where overflow is checked, and
\* where it wraps a panic of c[0]
UnwrapRounds(key, data, build) ==
    IF Len(data) < 8
    THEN Panic(IF build = "overflow checked" THEN "attempt to subtract with overflow"
               ELSE "index out of bounds")
    ELSE UnwrapLoop(key, (Len(data) \div 8) - 1,
                    [a |-> chunks(data)[1], r |-> Tail(chunks(data)), counters |-> <<>>],
                    5, (Len(data) \div 8) - 2)

\* 3) output the results
UnwrapOutput(st) ==
    IF IsPanic(st) THEN st
    ELSE IF st.a = IV THEN Ok(Extend(<<>>, st.r))
    ELSE Err("failed integrity check")

\* $name_unwrap
name_unwrap(key, data, build) == UnwrapOutput(UnwrapRounds(key, data, build))

\* the key sizes impl_aes_kw! is instantiated for
AesSizes == {128, 192, 256}

aes_kw_wrap(key, data) ==
    IF Len(data) % 8 # 0 THEN Err("data must be a multiple of 64bit")
    ELSE IF (Len(key) * 8) \in AesSizes THEN Ok(name_wrap(key, data))
    ELSE Err("invalid aes key size")

aes_kw_unwrap(key, data, build) ==
    IF Len(data) % 8 # 0 THEN Err("data must be a multiple of 64bit")
    ELSE IF (Len(key) * 8) \in AesSizes THEN name_unwrap(key, data, build)
    ELSE Err("invalid aes key size")

\* ---- the inputs

\* the keys of the model: the key-encryption keys of the tests (00 01 02 ..,
\* 16, 24 and 32 octets), one more of each length, and keys of 8 octets
KwKey(len, seed) == [i \in 1..len |-> ((seed * 29) + (i - 1)) % 256]
KwKeys == {KwKey(len, seed) : len \in {8, 16, 24, 32}, seed \in {0, 1}}

\* the two blocks of the data of the tests: 00 11 22 .. 77 and 88 99 .. FF
KwBlocks == {[i \in 1..8 |-> 17 * (i - 1)], [i \in 1..8 |-> 17 * (i + 7)]}

\* all data of up to n blocks
RECURSIVE KwBlockData(_)
KwBlockData(n) ==
    IF n = 0 THEN {<<>>}
    ELSE KwBlockData(n - 1)
           \cup {d \o b : d \in {x \in KwBlockData(n - 1) : Len(x) = 8 * (n - 1)},
                          b \in KwBlocks}

\* the data of the model: whole blocks, and the same with half a block more
KwData == KwBlockData(MaxBlocks) \cup {d \o <<1, 2, 3, 4>> : d \in KwBlockData(MaxBlocks - 1)}

\* out with the octet at p changed
Tamper(out, p) == [out EXCEPT ![p] = (out[p] + 1) % 256]

\* what is handed to aes_kw_unwrap after a call of aes_kw_wrap: what wrap
\* returned, the same with one octet changed or with the last block or half
\* of it missing, nothing at all, and what wrap was given
UnwrapData(w) ==
    IF IsOk(w.ret)
    THEN {w.ret.val, Tamper(w.ret.val, 1), Tamper(w.ret.val, Len(w.ret.val)),
          SubSeq(w.ret.val, 1, Len(w.ret.val) - 8),
          SubSeq(w.ret.val, 1, Len(w.ret.val) - 4), <<>>, w.data}
    ELSE {w.data}

\* the keys handed to aes_kw_unwrap: the key of wrap and the other key of its
\* length
UnwrapKeys(w) == {k \in KwKeys : Len(k) = Len(w.key)}

\* ---- the calls

CallAesKwWrap(key, data) ==
    /\ kwWrap = NotCalled
    /\ kwWrap' = [called |-> TRUE, key |-> key, data |-> data,
                  ret |-> aes_kw_wrap(key, data),
                  counters |-> IF Len(data) % 8 = 0 /\ (Len(key) * 8) \in AesSizes
                               THEN WrapRounds(key, data).counters ELSE <<>>]
    /\ UNCHANGED kwUnwrap
    /\ UNCHANGED notKw

CallAesKwUnwrap(key, data, build) ==
    /\ kwWrap # NotCalled
    /\ kwUnwrap = NotCalled
    /\ kwUnwrap' = [called |-> TRUE, key |-> key, data |-> data, build |-> build,
                    ret |-> aes_kw_unwrap(key, data, build),
                    rounds |-> IF Len(data) % 8 = 0 /\ (Len(key) * 8) \in AesSizes
                               THEN UnwrapRounds(key, data, build)
                               ELSE Panic("not reached")]
    /\ UNCHANGED kwWrap
    /\ UNCHANGED notKw

InitKw == Idle

NextKw ==
    \/ \E key \in KwKeys : \E data \in KwData : CallAesKwWrap(key, data)
    \/ kwWrap # NotCalled
         /\ \E key \in UnwrapKeys(kwWrap) : \E data \in UnwrapData(kwWrap) :
                \E build \in Builds : CallAesKwUnwrap(key, data, build)

SpecKw == InitKw /\ [][NextKw]_vars

\* ---------------------------------------------------------------- claims on the key wrap

\* a key of 16, 24 or 32 octets and data of whole blocks
KwPrecondition(call) ==
    /\ call.called
    /\ Len(call.key) \in {16, 24, 32}
    /\ Len(call.data) % 8 = 0

\* aes_kw_unwrap was given what aes_kw_wrap returned, with the key of wrap
UnwrappedTheWrapped ==
    /\ kwUnwrap.called
    /\ IsOk(kwWrap.ret)
    /\ kwUnwrap.key = kwWrap.key
    /\ kwUnwrap.data = kwWrap.ret.val

\* six outer rounds over n blocks with t = n*j + (i+1), in the order of wrap
SixRoundsUp(counters, n) ==
    /\ Len(counters) = 6 * n
    /\ \A j \in 0..5 : \A i \in 0..(n - 1) :
           counters[(n * j) + i + 1] = (n * j) + (i + 1)

\* the same rounds in the order of unwrap: the last first
SixRoundsDown(counters, n) ==
    /\ Len(counters) = 6 * n
    /\ \A j \in 0..5 : \A i \in 0..(n - 1) :
           counters[(6 * n) - ((n * j) + i)] = (n * j) + (i + 1)

\* C27: with a key of 16, 24 or 32 octets and data of whole 64-bit blocks,
\* unwrapping what wrap returned gives the data back, what wrap returns is 8
\* octets longer than the data, both run six outer rounds with the counter
\* t = n*j + (i+1), and unwrap fails whenever the A it recovers is not the IV
C27_KeyWrapRoundTrip ==
    /\ UnwrappedTheWrapped => kwUnwrap.ret = Ok(kwWrap.data)
    /\ KwPrecondition(kwWrap) =>
           /\ IsOk(kwWrap.ret)
           /\ Len(kwWrap.ret.val) = Len(kwWrap.data) + 8
           /\ SixRoundsUp(kwWrap.counters, Len(kwWrap.data) \div 8)
    /\ (KwPrecondition(kwUnwrap) /\ Len(kwUnwrap.data) >= 8) =>
           /\ SixRoundsDown(kwUnwrap.rounds.counters, (Len(kwUnwrap.data) \div 8) - 1)
           /\ kwUnwrap.rounds.a # IV => kwUnwrap.ret = Err("failed integrity check")
           /\ kwUnwrap.rounds.a = IV => IsOk(kwUnwrap.ret)

\* two blocks wrapped under a key of 24 octets came back from unwrap
C27_Witness ==
    /\ UnwrappedTheWrapped
    /\ Len(kwWrap.key) = 24
    /\ Len(kwWrap.data) = 16
    /\ Len(kwWrap.ret.val) = 24
    /\ kwUnwrap.ret = Ok(kwWrap.data)

\* what unwrap accepts is what wrap returns: a changed octet, another key or
\* a missing block is refused
UnwrapAcceptsOnlyTheWrapped ==
    (KwPrecondition(kwUnwrap) /\ Len(kwUnwrap.data) >= 8) =>
        IF IsOk(kwUnwrap.ret)
        THEN name_wrap(kwUnwrap.key, kwUnwrap.ret.val) = kwUnwrap.data
        ELSE kwUnwrap.ret = Err("failed integrity check")

\* unwrap of an octet-changed output of wrap was refused
TamperedIsRefused ==
    (/\ kwUnwrap.called
     /\ IsOk(kwWrap.ret)
     /\ kwUnwrap.data \in {Tamper(kwWrap.ret.val, 1),
                           Tamper(kwWrap.ret.val, Len(kwWrap.ret.val))})
        => kwUnwrap.ret = Err("failed integrity check")

\* aes_kw_unwrap of no octets at all panics
UnwrapOfNothingPanics ==
    (KwPrecondition(kwUnwrap) /\ kwUnwrap.data = <<>>) => IsPanic(kwUnwrap.ret)

\* ================================================================ unsigned details
\* composed/signed_key/shared.rs, SignedKeyDetails::as_unsigned

\* most users of the details as_unsigned is called on
MaxUsers == 3

\* a certification of a user id; is_primary is its primary-user-id subpacket
Certification(pos, is_primary) ==
    [tag |-> "Signature", attr |-> "CertPositive", pos |-> pos, is_primary |-> is_primary]

\* SignedUser::is_primary: one of the signatures of the user says so
is_primary(user) == \E k \in 1..Len(user.signatures) : user.signatures[k].is_primary

\* KeyDetails::new; keyflags, the three lists of preferred algorithms and the
\* revocation key are read off primary_sig
KeyDetailsNew(primary_user_id, user_ids, user_attributes, primary_sig) ==
    [primary_user_id |-> primary_user_id, user_ids |-> user_ids,
     user_attributes |-> user_attributes, primary_sig |-> primary_sig]

\* self.users.iter().find(|u| u.is_primary()), or else self.users.first()
PrimaryUser(users) ==
    IF \E i \in 1..Len(users) : is_primary(users[i])
    THEN Some(users[CHOOSE i \in 1..Len(users) :
                        /\ is_primary(users[i])
                        /\ \A j \in 1..(i - 1) : ~is_primary(users[j])])
    ELSE IF users # <<>> THEN Some(users[1])
    ELSE None

\* .map(|u| u.id.clone()), .map(|a| a.attr.clone())
Ids(s) == [i \in 1..Len(s) |-> s[i].id]

NotPrimary(user) == ~is_primary(user)

as_unsigned(self) ==
    With(PrimaryUser(self.users), LAMBDA primary_user :
        IF ~primary_user.some THEN Panic("missing user ids")
        ELSE IF primary_user.val.signatures = <<>> THEN Panic("invalid primary user")
        ELSE KeyDetailsNew(primary_user.val.id,
                           Ids(SelectSeq(self.users, NotPrimary)),
                           Ids(self.user_attributes),
                           Head(primary_user.val.signatures)))

\* ---- the inputs

\* the signatures a user of the model comes with: none, one that is silent on
\* the primary user id, one that names it, one of each
CertificationLists ==
    {<<>>, <<Certification(1, FALSE)>>, <<Certification(1, TRUE)>>,
     <<Certification(1, FALSE), Certification(2, TRUE)>>}

\* the users handed to SignedKeyDetails::new, told apart by their position
UserLists ==
    UNION {{[i \in 1..n |-> Signed(Pkt("UserId", "-", i), sigs[i])] :
               sigs \in [1..n -> CertificationLists]} : n \in 0..MaxUsers}

\* the user attributes handed to SignedKeyDetails::new
AttributeLists ==
    {<<>>, <<Signed(Pkt("UserAttribute", "-", 1), <<>>)>>,
     <<Signed(Pkt("UserAttribute", "-", 1), <<Certification(1, FALSE)>>)>>}

\* ---- the calls

\* SignedKeyDetails::new(..).as_unsigned()
CallAsUnsigned(users, attrs) ==
    /\ unsCall = NotCalled
    /\ unsCall' = [called |-> TRUE,
                   self |-> SignedKeyDetailsNew(<<>>, <<>>, users, attrs),
                   ret |-> as_unsigned(SignedKeyDetailsNew(<<>>, <<>>, users, attrs))]
    /\ UNCHANGED notUns

InitUns == Idle

NextUns ==
    unsCall = NotCalled
      /\ \E users \in UserLists : \E attrs \in AttributeLists : CallAsUnsigned(users, attrs)

SpecUns == InitUns /\ [][NextUns]_vars

\* ---------------------------------------------------------------- claims on the unsigned details

\* the positions of the users that are flagged primary
Flagged(users) == {i \in 1..Len(users) : is_primary(users[i])}

\* how often id occurs in the sequence s
Occurrences(s, id) == Cardinality({i \in 1..Len(s) : s[i] = id})

\* C30: as_unsigned partitions the users of the key: the primary user id (of
\* the first user flagged primary, or else of the first user) and the list of
\* non-primary user ids together hold every user exactly once, so that
\* 1 + the number of non-primary ids is the number of users, whether no user,
\* one user or several users are flagged primary
C30_AsUnsignedPartitionsUsers ==
    (unsCall.called /\ unsCall.self.users # <<>>) =>
        /\ ~IsPanic(unsCall.ret)
        /\ unsCall.ret.primary_user_id = PrimaryUser(unsCall.self.users).val.id
        /\ 1 + Len(unsCall.ret.user_ids) = Len(unsCall.self.users)
        /\ \A i \in 1..Len(unsCall.self.users) :
              Occurrences(<<unsCall.ret.primary_user_id>> \o unsCall.ret.user_ids,
                          unsCall.self.users[i].id) = 1

\* what the code does: the non-primary ids are the ids of the users that are
\* not flagged, in their order, whoever was chosen as the primary user. With
\* no user flagged the first user is both the primary user and a non-primary
\* id; of several flagged users all but the first are in neither place; only
\* with one flagged user do the two hold every user once
AsUnsignedSplitsByFlag ==
    (unsCall.called /\ unsCall.self.users # <<>>) =>
        /\ ~IsPanic(unsCall.ret)
        /\ unsCall.ret.primary_user_id = PrimaryUser(unsCall.self.users).val.id
        /\ Len(unsCall.ret.user_ids)
              = Len(unsCall.self.users) - Cardinality(Flagged(unsCall.self.users))
        /\ \A i \in 1..Len(unsCall.self.users) :
              Occurrences(<<unsCall.ret.primary_user_id>> \o unsCall.ret.user_ids,
                          unsCall.self.users[i].id)
                = (IF Flagged(unsCall.self.users) = {}
                   THEN (IF i = 1 THEN 2 ELSE 1)
                   ELSE IF i \in Flagged(unsCall.self.users)
                   THEN (IF \A j \in Flagged(unsCall.self.users) : i <= j THEN 1 ELSE 0)
                   ELSE 1)

\* with exactly one user flagged primary the claim holds
OneFlaggedUserPartitions ==
    (unsCall.called /\ Cardinality(Flagged(unsCall.self.users)) = 1) =>
        /\ 1 + Len(unsCall.ret.user_ids) = Len(unsCall.self.users)
        /\ \A i \in 1..Len(unsCall.self.users) :
              Occurrences(<<unsCall.ret.primary_user_id>> \o unsCall.ret.user_ids,
                          unsCall.self.users[i].id) = 1

\* details without users make as_unsigned panic
NoUsersPanics ==
    (unsCall.called /\ unsCall.self.users = <<>>) => unsCall.ret = Panic("missing user ids")

====
